---- MODULE Spec2Model ----
(***************************************************************************)
(* SampleGuard: the simulated RFID hardware layer and the validator.       *)
(*                                                                         *)
(*   TagSimulator   (src/hardware/simulator.rs)  in-memory tag registry    *)
(*   ProtocolResponse (src/hardware/protocol.rs) the single response shape *)
(*   ImpinjSpeedwayReader / ZebraFX9600Reader    the two vendor adapters   *)
(*   HardwareDriver (src/hardware/driver.rs)     orchestrator, event log   *)
(*   IntegrityValidator (src/integrity.rs)       validation of a Sample    *)
(*                                                                         *)
(* Byte vectors are sequences of integers.  An ASCII literal such as       *)
(* b"Inventory started" is kept as a one-element sequence holding the      *)
(* text, and a formatted message as the sequence of its pieces.            *)
(* Option<T> is a sequence of length at most one.  Probabilities are in    *)
(* percent.  Wall-clock readings (Utc::now) are inputs of the handler      *)
(* that takes them; the measured response_time_ms and the timestamp of a   *)
(* ProtocolResponse are not part of the modelled response.                 *)
(***************************************************************************)
EXTENDS Integers, Sequences, FiniteSets, TLC

\* ------------------------------------------------------------------------
\* Bounds of the exploration
\* ------------------------------------------------------------------------
MaxReadCount == 2
MaxSimAccesses == 3
MaxKept == 3
MaxTime == 1
MaxDuration == 25
MaxJitter == 3
MaxPolls == 4
MaxLog == 12
MaxOversleep == 490

\* ------------------------------------------------------------------------
\* Program constants
\* ------------------------------------------------------------------------
VisibilityFloor == -80
PollInterval == 10
DefaultRssi == -60
DefaultAntenna == 1
ImpinjPower == 30
ZebraPower == 27

\* ------------------------------------------------------------------------
\* Input domains
\* ------------------------------------------------------------------------
Impinj == "impinj"
Zebra == "zebra"
Readers == {Impinj, Zebra}
Epcs == {"EPC-1", "EPC-2"}
Payloads == {<<1, 2, 3>>, <<7, 8, 9>>}
RssiInputs == {VisibilityFloor, -70}
RateInputs == {-10, 0, 50, 100, 150}
Draws == {0, 50}
Times == 1..MaxTime
Durations == {0, 5, MaxDuration}
Jitters == {0, MaxJitter}

None == <<>>
Some(x) == <<x>>

Ok(v) == [ok |-> TRUE, val |-> v]
Err(e) == [ok |-> FALSE, err |-> e]

Min(a, b) == IF a < b THEN a ELSE b
Max(a, b) == IF a > b THEN a ELSE b

\* ------------------------------------------------------------------------
\* error.rs
\* ------------------------------------------------------------------------
ReaderError(msg) == [kind |-> "ReaderError", msg |-> msg]

\* Display of SampleGuardError::ReaderError: "RFID reader error: {0}"
ErrorToString_KindOnly(e) == <<"RFID reader error">>
ErrorToString(e) == <<"RFID reader error: ">> \o e.msg

\* ------------------------------------------------------------------------
\* simulator.rs: SimulatedTag
\* ------------------------------------------------------------------------
SimulatedTag_new(epc, tag_id, data) ==
    [epc |-> epc, tag_id |-> tag_id, data |-> data, rssi |-> DefaultRssi,
     antenna |-> DefaultAntenna, read_count |-> 0, last_read |-> None,
     error_rate |-> 0]

with_error_rate(tag, rate) == [tag EXCEPT !.error_rate = Min(Max(rate, 0), 100)]

with_rssi(tag, rssi) == [tag EXCEPT !.rssi = rssi]

should_error_NoZeroRate(tag, draw) == draw <= tag.error_rate
should_error(tag, draw) == draw < tag.error_rate

\* The tags a caller can build: new, then optionally with_rssi / with_error_rate.
BuiltTags ==
    { with_error_rate(with_rssi(SimulatedTag_new(e, "TAG", d), s), p) :
        e \in Epcs, d \in Payloads, s \in RssiInputs, p \in RateInputs }

\* ------------------------------------------------------------------------
\* simulator.rs: TagSimulator.  A registry is a function from the registered
\* identifiers to their tags (HashMap<String, SimulatedTag>).
\* ------------------------------------------------------------------------
TagSimulator_new == [e \in {} |-> 0]

add_tag(tags, tag) ==
    [e \in (DOMAIN tags) \cup {tag.epc} |-> IF e = tag.epc THEN tag ELSE tags[e]]

remove_tag(tags, epc) == [e \in (DOMAIN tags) \ {epc} |-> tags[e]]

get_tags(tags) == {tags[e] : e \in DOMAIN tags}

read_tag_CountsFailure(tags, epc, draw, now) ==
    IF epc \notin DOMAIN tags
    THEN [tags |-> tags, ret |-> Err(ReaderError(<<"Tag ", epc, " not found">>))]
    ELSE IF should_error(tags[epc], draw)
    THEN [tags |-> [tags EXCEPT ![epc].read_count = @ + 1,
                                ![epc].last_read = Some(now)],
          ret |-> Err(ReaderError(<<"Tag read error (simulated)">>))]
    ELSE [tags |-> [tags EXCEPT ![epc].read_count = @ + 1,
                                ![epc].last_read = Some(now)],
          ret |-> Ok(tags[epc].data)]
read_tag_NoCount(tags, epc, draw, now) ==
    IF epc \notin DOMAIN tags
    THEN [tags |-> tags, ret |-> Err(ReaderError(<<"Tag ", epc, " not found">>))]
    ELSE IF should_error(tags[epc], draw)
    THEN [tags |-> tags, ret |-> Err(ReaderError(<<"Tag read error (simulated)">>))]
    ELSE [tags |-> [tags EXCEPT ![epc].last_read = Some(now)],
          ret |-> Ok(tags[epc].data)]
read_tag(tags, epc, draw, now) ==
    IF epc \notin DOMAIN tags
    THEN [tags |-> tags, ret |-> Err(ReaderError(<<"Tag ", epc, " not found">>))]
    ELSE IF should_error(tags[epc], draw)
    THEN [tags |-> tags, ret |-> Err(ReaderError(<<"Tag read error (simulated)">>))]
    ELSE [tags |-> [tags EXCEPT ![epc].read_count = @ + 1,
                                ![epc].last_read = Some(now)],
          ret |-> Ok(tags[epc].data)]

write_tag_KeepsPayload(tags, epc, data, draw, now) ==
    IF epc \notin DOMAIN tags
    THEN [tags |-> tags, ret |-> Err(ReaderError(<<"Tag ", epc, " not found">>))]
    ELSE IF should_error(tags[epc], draw)
    THEN [tags |-> tags, ret |-> Err(ReaderError(<<"Tag write error (simulated)">>))]
    ELSE [tags |-> [tags EXCEPT ![epc].read_count = @ + 1,
                                ![epc].last_read = Some(now)],
          ret |-> Ok("unit")]
write_tag(tags, epc, data, draw, now) ==
    IF epc \notin DOMAIN tags
    THEN [tags |-> tags, ret |-> Err(ReaderError(<<"Tag ", epc, " not found">>))]
    ELSE IF should_error(tags[epc], draw)
    THEN [tags |-> tags, ret |-> Err(ReaderError(<<"Tag write error (simulated)">>))]
    ELSE [tags |-> [tags EXCEPT ![epc].data = data,
                                ![epc].read_count = @ + 1,
                                ![epc].last_read = Some(now)],
          ret |-> Ok("unit")]

\* scan_tags, the loop condition of the poll loop (simulator.rs:156).
ScanContinue(elapsed, duration, found, tags) ==
    elapsed < duration /\ Len(found) < Cardinality(DOMAIN tags)

\* scan_tags, the visibility test of one tag in one poll (simulator.rs:159).
ScanCandidate_NoDedup(tag, found) ==
    tag.rssi > VisibilityFloor
ScanCandidate(tag, found) ==
    tag.rssi > VisibilityFloor /\ ~ \E i \in 1..Len(found) : found[i].epc = tag.epc

\* scan_tags, one pass of the for loop over tags.values() (simulator.rs:157-164),
\* visiting the registry in the order `order` with one gate draw per tag.
RECURSIVE ScanPass(_, _, _, _)
ScanPass(order, tags, found, draws) ==
    IF order = <<>> THEN found
    ELSE LET tag == tags[Head(order)]
             next == IF ScanCandidate(tag, found) /\ ~should_error(tag, draws[Head(order)])
                     THEN Append(found, tag)
                     ELSE found
         IN  ScanPass(Tail(order), tags, next, draws)

\* The iteration orders of a HashMap holding the keys S.
Orders(S) ==
    { o \in [1..Cardinality(S) -> S] : \A i, j \in 1..Cardinality(S) : i # j => o[i] # o[j] }

\* scan_tags, the sleep that ends a poll (simulator.rs:167); it may oversleep.
ScanElapsedAfterPoll_NoSleep(elapsed, jitter) == elapsed
ScanElapsedAfterPoll(elapsed, jitter) == elapsed + PollInterval + jitter

\* ------------------------------------------------------------------------
\* protocol.rs
\* ------------------------------------------------------------------------
MemoryBanks == {"Reserved", "Epc", "Tid", "User"}

Initialize == [type |-> "Initialize"]
StartInventory == [type |-> "StartInventory"]
StopInventory == [type |-> "StopInventory"]
ReadTag(epc, bank) == [type |-> "ReadTag", epc |-> epc, bank |-> bank]
WriteTag(epc, bank, data) == [type |-> "WriteTag", epc |-> epc, bank |-> bank, data |-> data]
GetConfiguration == [type |-> "GetConfiguration"]
SetConfiguration(power, antenna) == [type |-> "SetConfiguration", power |-> power, antenna |-> antenna]
GetStatus == [type |-> "GetStatus"]

PowerInputs == {50}
AntennaInputs == {1}

ReaderCommands ==
    {Initialize, StartInventory, StopInventory, GetConfiguration, GetStatus}
    \cup {ReadTag(e, b) : e \in Epcs, b \in MemoryBanks}
    \cup {WriteTag(e, "User", d) : e \in Epcs, d \in Payloads}
    \cup {SetConfiguration(p, a) : p \in PowerInputs, a \in AntennaInputs}

ProtocolResponse_success(data) == [success |-> TRUE, data |-> Some(data), error |-> None]

ProtocolResponse_error_KeepsData(error) == [success |-> FALSE, data |-> Some(<<>>), error |-> Some(error)]
ProtocolResponse_error(error) == [success |-> FALSE, data |-> None, error |-> Some(error)]

\* The outcome of send_command: the adapter's fields afterwards and the
\* Result<ProtocolResponse> it returns.
Outcome(conn, power, tags, resp) ==
    [connected |-> conn, power_level |-> power, tags |-> tags, ret |-> Ok(resp)]

\* ------------------------------------------------------------------------
\* impinj.rs
\* ------------------------------------------------------------------------
ImpinjProtocolVersion == "LLRP-1.0.1"

Impinj_send_command_ConfigBeforeGate(conn, power, tags, cmd, draw, now) ==
    IF cmd.type = "Initialize"
    THEN Outcome(TRUE, power, tags,
                 ProtocolResponse_success(<<"Impinj Speedway Reader initialized">>))
    ELSE IF cmd.type = "SetConfiguration"
    THEN Outcome(conn, cmd.power, tags,
                 IF conn THEN ProtocolResponse_success(<<"Configuration updated">>)
                 ELSE ProtocolResponse_error(<<"Reader not connected">>))
    ELSE IF ~conn
    THEN Outcome(conn, power, tags, ProtocolResponse_error(<<"Reader not connected">>))
    ELSE CASE cmd.type = "StartInventory" ->
                Outcome(conn, power, tags, ProtocolResponse_success(<<"Inventory started">>))
           [] cmd.type = "StopInventory" ->
                Outcome(conn, power, tags, ProtocolResponse_success(<<"Inventory stopped">>))
           [] cmd.type = "ReadTag" ->
                LET out == read_tag(tags, cmd.epc, draw, now)
                IN  Outcome(conn, power, out.tags,
                            IF out.ret.ok
                            THEN ProtocolResponse_success(out.ret.val)
                            ELSE ProtocolResponse_error(ErrorToString(out.ret.err)))
           [] cmd.type = "WriteTag" ->
                LET out == write_tag(tags, cmd.epc, cmd.data, draw, now)
                IN  Outcome(conn, power, out.tags,
                            IF out.ret.ok
                            THEN ProtocolResponse_success(<<"Write successful">>)
                            ELSE ProtocolResponse_error(ErrorToString(out.ret.err)))
           [] cmd.type = "GetConfiguration" ->
                Outcome(conn, power, tags,
                        ProtocolResponse_success(
                            <<[power_level |-> power, frequency |-> "UltraHighFrequency",
                               antenna_gain |-> "6.0"]>>))
           [] cmd.type = "GetStatus" ->
                Outcome(conn, power, tags,
                        ProtocolResponse_success(
                            <<[connected |-> conn, protocol |-> ImpinjProtocolVersion,
                               tags_in_range |-> Cardinality(get_tags(tags))]>>))
Impinj_send_command(conn, power, tags, cmd, draw, now) ==
    IF cmd.type = "Initialize"
    THEN Outcome(TRUE, power, tags,
                 ProtocolResponse_success(<<"Impinj Speedway Reader initialized">>))
    ELSE IF ~conn
    THEN Outcome(conn, power, tags, ProtocolResponse_error(<<"Reader not connected">>))
    ELSE CASE cmd.type = "StartInventory" ->
                Outcome(conn, power, tags, ProtocolResponse_success(<<"Inventory started">>))
           [] cmd.type = "StopInventory" ->
                Outcome(conn, power, tags, ProtocolResponse_success(<<"Inventory stopped">>))
           [] cmd.type = "ReadTag" ->
                LET out == read_tag(tags, cmd.epc, draw, now)
                IN  Outcome(conn, power, out.tags,
                            IF out.ret.ok
                            THEN ProtocolResponse_success(out.ret.val)
                            ELSE ProtocolResponse_error(ErrorToString(out.ret.err)))
           [] cmd.type = "WriteTag" ->
                LET out == write_tag(tags, cmd.epc, cmd.data, draw, now)
                IN  Outcome(conn, power, out.tags,
                            IF out.ret.ok
                            THEN ProtocolResponse_success(<<"Write successful">>)
                            ELSE ProtocolResponse_error(ErrorToString(out.ret.err)))
           [] cmd.type = "GetConfiguration" ->
                Outcome(conn, power, tags,
                        ProtocolResponse_success(
                            <<[power_level |-> power, frequency |-> "UltraHighFrequency",
                               antenna_gain |-> "6.0"]>>))
           [] cmd.type = "SetConfiguration" ->
                Outcome(conn, cmd.power, tags, ProtocolResponse_success(<<"Configuration updated">>))
           [] cmd.type = "GetStatus" ->
                Outcome(conn, power, tags,
                        ProtocolResponse_success(
                            <<[connected |-> conn, protocol |-> ImpinjProtocolVersion,
                               tags_in_range |-> Cardinality(get_tags(tags))]>>))

\* ------------------------------------------------------------------------
\* zebra.rs
\* ------------------------------------------------------------------------
ZebraProtocolVersion == "Zebra-2.0"

\* reader_id is "FX9600-" followed by six random hex digits, fixed at construction.
ZebraReaderId == "FX9600-XXXXXX"

BankByte_OneBased(bank) ==
    CASE bank = "Reserved" -> 1
      [] bank = "Epc" -> 2
      [] bank = "Tid" -> 3
      [] bank = "User" -> 4
BankByte(bank) ==
    CASE bank = "Reserved" -> 0
      [] bank = "Epc" -> 1
      [] bank = "Tid" -> 2
      [] bank = "User" -> 3

Zebra_send_command(conn, power, tags, cmd, draw, now) ==
    IF cmd.type = "Initialize"
    THEN Outcome(TRUE, power, tags,
                 ProtocolResponse_success(<<"Zebra FX9600 ", ZebraReaderId, " initialized">>))
    ELSE IF ~conn
    THEN Outcome(conn, power, tags, ProtocolResponse_error(<<"Reader not connected">>))
    ELSE CASE cmd.type = "StartInventory" ->
                Outcome(conn, power, tags, ProtocolResponse_success(<<"Inventory session started">>))
           [] cmd.type = "StopInventory" ->
                Outcome(conn, power, tags, ProtocolResponse_success(<<"Inventory session stopped">>))
           [] cmd.type = "ReadTag" ->
                LET out == read_tag(tags, cmd.epc, draw, now)
                IN  Outcome(conn, power, out.tags,
                            IF out.ret.ok
                            THEN ProtocolResponse_success(<<BankByte(cmd.bank)>> \o out.ret.val)
                            ELSE ProtocolResponse_error(ErrorToString(out.ret.err)))
           [] cmd.type = "WriteTag" ->
                LET out == write_tag(tags, cmd.epc, cmd.data, draw, now)
                IN  Outcome(conn, power, out.tags,
                            IF out.ret.ok
                            THEN ProtocolResponse_success(<<"Tag write completed">>)
                            ELSE ProtocolResponse_error(ErrorToString(out.ret.err)))
           [] cmd.type = "GetConfiguration" ->
                Outcome(conn, power, tags,
                        ProtocolResponse_success(
                            <<[reader_id |-> ZebraReaderId, power_level |-> power,
                               frequency |-> "UltraHighFrequency", antenna_gain |-> "6.5"]>>))
           [] cmd.type = "SetConfiguration" ->
                Outcome(conn, cmd.power, tags,
                        ProtocolResponse_success(
                            <<"Configuration updated: power=", cmd.power,
                              ", antenna=", cmd.antenna>>))
           [] cmd.type = "GetStatus" ->
                Outcome(conn, power, tags,
                        ProtocolResponse_success(
                            <<[connected |-> conn, reader_id |-> ZebraReaderId,
                               protocol |-> ZebraProtocolVersion,
                               tags_in_range |-> Cardinality(get_tags(tags))]>>))

\* ReaderProtocol::send_command, dispatched on the adapter.
send_command(r, conn, power, tags, cmd, draw, now) ==
    IF r = Impinj
    THEN Impinj_send_command(conn, power, tags, cmd, draw, now)
    ELSE Zebra_send_command(conn, power, tags, cmd, draw, now)

\* RFIDReader::read_tag of both adapters: the tag that get_tags lists first is
\* read from the simulator. get_tags collects the values of a HashMap, whose
\* order is not fixed; `first` is the identifier it happens to list first and
\* is looked at only when the registry holds a tag.
Adapter_read_tag(conn, tags, first, draw, now) ==
    IF ~conn
    THEN [tags |-> tags, ret |-> Err(ReaderError(<<"Reader not connected">>))]
    ELSE IF get_tags(tags) = {}
    THEN [tags |-> tags, ret |-> Err(ReaderError(<<"No tags in range">>))]
    ELSE read_tag(tags, first, draw, now)

\* RFIDReader::write_tag of both adapters: the same tag takes the bytes.
Adapter_write_tag(conn, tags, first, data, draw, now) ==
    IF ~conn
    THEN [tags |-> tags, ret |-> Err(ReaderError(<<"Reader not connected">>))]
    ELSE IF get_tags(tags) = {}
    THEN [tags |-> tags, ret |-> Err(ReaderError(<<"No tags in range">>))]
    ELSE write_tag(tags, first, data, draw, now)

\* The simulators a test installs with with_simulator: TagSimulator::new()
\* with one tag added.
SeedRates == {50}
SeedSimulators ==
    { add_tag(TagSimulator_new,
              with_error_rate(SimulatedTag_new("EPC-1", "TAG", <<1, 2, 3>>), p)) :
        p \in SeedRates }

\* ------------------------------------------------------------------------
\* driver.rs: events, demo tags, the parts of the operations that follow the
\* adapter's answer
\* ------------------------------------------------------------------------
\* HardwareDriver instances; each owns one adapter of each vendor.
Drivers == {"A", "B"}
ImpinjOf(d) == IF d = "A" THEN Impinj ELSE "impinj-B"
ZebraOf(d) == IF d = "A" THEN Zebra ELSE "zebra-B"
Adapters == UNION {{ImpinjOf(d), ZebraOf(d)} : d \in Drivers}
IsImpinj(r) == \E d \in Drivers : r = ImpinjOf(d)

ImpinjName == "Impinj Speedway"
ZebraName == "Zebra FX9600"
ReaderName(r) == IF IsImpinj(r) THEN ImpinjName ELSE ZebraName

\* simulate_delay of the two adapters, in milliseconds.
ImpinjDelay == 8
ZebraDelay == 6
simulate_delay(r) == IF IsImpinj(r) THEN ImpinjDelay ELSE ZebraDelay

protocol_version(r) == IF IsImpinj(r) THEN ImpinjProtocolVersion ELSE ZebraProtocolVersion

\* DriverEvent. The measured durations (duration_ms, response_time_ms) are
\* wall-clock readings and are left out of the events.
ReaderInitialized(reader_type, protocol) ==
    [type |-> "ReaderInitialized", reader_type |-> reader_type, protocol |-> protocol]
TagDetected(epc, rssi, antenna) ==
    [type |-> "TagDetected", epc |-> epc, rssi |-> rssi, antenna |-> antenna]
TagRead(epc, data_size) == [type |-> "TagRead", epc |-> epc, data_size |-> data_size]
TagWritten(epc, data_size) == [type |-> "TagWritten", epc |-> epc, data_size |-> data_size]
InventoryStarted(reader_type) == [type |-> "InventoryStarted", reader_type |-> reader_type]
InventoryCompleted(reader_type, tags_found) ==
    [type |-> "InventoryCompleted", reader_type |-> reader_type, tags_found |-> tags_found]
ErrorEvent(reader_type, error) ==
    [type |-> "Error", reader_type |-> reader_type, error |-> error]
NetworkDelay(reader_type, delay_ms) ==
    [type |-> "NetworkDelay", reader_type |-> reader_type, delay_ms |-> delay_ms]
ProtocolMessage(reader_type, command) ==
    [type |-> "ProtocolMessage", reader_type |-> reader_type, command |-> command]

\* Option::unwrap_or_default / unwrap_or_else
unwrap_or(opt, default) == IF opt = None THEN default ELSE opt[1]

\* A String turned into Box<dyn Error> (`error.into()`).
BoxError(text) == [kind |-> "Box<dyn Error>", msg |-> text]

\* RFIDReader::initialize, from the outcome `out` of send_command(Initialize) on.
initialize(out) ==
    IF ~out.ret.ok
    THEN out
    ELSE IF out.ret.val.success
    THEN [out EXCEPT !.connected = TRUE, !.ret = Ok("unit")]
    ELSE [out EXCEPT !.ret = Err(ReaderError(unwrap_or(out.ret.val.error,
                                                      <<"Initialization failed">>)))]

\* setup_demo_tags: five tags, the same clones for both adapters. The payload
\* is the serialized demo sample; its bytes are stood for by three bytes.
DemoTagCount == 5
DemoFaultyTag == 3
DemoErrorRate == 10
DemoTagData == <<1, 2, 3>>
DemoEpc(i) ==
    <<"EPC-DEMO-001", "EPC-DEMO-002", "EPC-DEMO-003", "EPC-DEMO-004", "EPC-DEMO-005">>[i]
DemoTagId(i) ==
    <<"TAG-DEMO-001", "TAG-DEMO-002", "TAG-DEMO-003", "TAG-DEMO-004", "TAG-DEMO-005">>[i]
DemoEpcs == {DemoEpc(i) : i \in 1..DemoTagCount}
AllEpcs == Epcs \cup DemoEpcs

with_antenna(tag, antenna) == [tag EXCEPT !.antenna = antenna]

DemoTag(i) ==
    LET sim_tag == with_antenna(
                       with_rssi(SimulatedTag_new(DemoEpc(i), DemoTagId(i), DemoTagData),
                                 -60 - (i * 5)),
                       (i % 4) + 1)
    IN  IF i = DemoFaultyTag THEN with_error_rate(sim_tag, DemoErrorRate) ELSE sim_tag

RECURSIVE AddDemoTags(_, _)
AddDemoTags(tags, i) ==
    IF i > DemoTagCount THEN tags ELSE AddDemoTags(add_tag(tags, DemoTag(i)), i + 1)

DemoSimulator == AddDemoTags(TagSimulator_new, 1)

\* perform_inventory_scan: the duration of each adapter's scan, the events
\* logged once both scans have returned, and the returned identifiers.
InventoryDuration == 500

TagDetectedEvents(tags) ==
    [i \in 1..Len(tags) |-> TagDetected(tags[i].epc, tags[i].rssi, tags[i].antenna)]

InventoryResult(impinj_tags, zebra_tags) ==
    [i \in 1..Len(impinj_tags) |-> impinj_tags[i].epc]

\* read_tag_impinj / read_tag_zebra from the return of send_command on: the
\* events logged and the value returned.
read_tag_finish_LogsBoth(name, epc, ret) ==
    IF ~ret.ok
    THEN [events |-> <<>>, ret |-> Err(ret.err)]
    ELSE IF ret.val.success
    THEN LET data == unwrap_or(ret.val.data, <<>>)
         IN  [events |-> <<ProtocolMessage(name, "ReadTag"), TagRead(epc, Len(data)),
                           ErrorEvent(name, <<"Unknown error">>)>>,
              ret |-> Ok(data)]
    ELSE LET error == unwrap_or(ret.val.error, <<"Unknown error">>)
         IN  [events |-> <<ProtocolMessage(name, "ReadTag"), ErrorEvent(name, error)>>,
              ret |-> Err(BoxError(error))]
read_tag_finish(name, epc, ret) ==
    IF ~ret.ok
    THEN [events |-> <<>>, ret |-> Err(ret.err)]
    ELSE IF ret.val.success
    THEN LET data == unwrap_or(ret.val.data, <<>>)
         IN  [events |-> <<ProtocolMessage(name, "ReadTag"), TagRead(epc, Len(data))>>,
              ret |-> Ok(data)]
    ELSE LET error == unwrap_or(ret.val.error, <<"Unknown error">>)
         IN  [events |-> <<ProtocolMessage(name, "ReadTag"), ErrorEvent(name, error)>>,
              ret |-> Err(BoxError(error))]

\* write_tag_impinj from the return of send_command on.
write_tag_finish(name, epc, data, ret) ==
    IF ~ret.ok
    THEN [events |-> <<>>, ret |-> Err(ret.err)]
    ELSE IF ret.val.success
    THEN [events |-> <<TagWritten(epc, Len(data))>>, ret |-> Ok("unit")]
    ELSE LET error == unwrap_or(ret.val.error, <<"Unknown error">>)
         IN  [events |-> <<ErrorEvent(name, error)>>, ret |-> Err(BoxError(error))]

\* get_reader_config from the return of send_command on; nothing is logged.
get_reader_config_finish(ret) ==
    IF ~ret.ok
    THEN [events |-> <<>>, ret |-> Err(ret.err)]
    ELSE IF ret.val.success
    THEN [events |-> <<>>, ret |-> Ok(unwrap_or(ret.val.data, <<>>))]
    ELSE [events |-> <<>>,
          ret |-> Err(BoxError(unwrap_or(ret.val.error, <<"Failed to get configuration">>)))]

\* get_events: everything in the channel is received, in order.
get_events_OneEvent(log) ==
    IF log = <<>> THEN [ret |-> log, log |-> log] ELSE [ret |-> <<Head(log)>>, log |-> Tail(log)]
get_events(log) == [ret |-> log, log |-> <<>>]

\* log_event: one send on the instance's own channel.
log_event(log, event) == Append(log, event)

\* ------------------------------------------------------------------------
\* Bytes and serialized text
\* ------------------------------------------------------------------------
\* Every element of a buffer is a pair <<kind, value>>.  Byte(b) is the byte
\* b, and in a serialized array of u8 the number token that denotes it.  The
\* text serde_json writes is kept as the sequence of its tokens (separators
\* omitted), one buffer element per token: Punct for brackets and the
\* literals null / true / false, Key for a field name, Str for a quoted
\* string, Time for a quoted RFC 3339 instant, Uuid for a quoted UUID, Num
\* for the number token of an integer or a float.
Byte(b) == <<"n", b>>
Num(n) == <<"#", n>>
Punct(c) == <<"p", c>>
Key(name) == <<"k", name>>
Str(s) == <<"s", s>>
Time(t) == <<"t", t>>
Uuid(u) == <<"u", u>>

Kind(u) == u[1]
At(toks, i) == IF i \in DOMAIN toks THEN toks[i] ELSE Punct("eof")

\* Bytes the model does not compute: those of a ciphertext and of a digest.
\* In serialized text they stand for the number tokens that denote them.
OpaqueBytes == {"c", "sha256"}

IsNumber(u) == Kind(u) \in {"n", "#"}

\* An element that can stand where serde expects a u8: a number token in
\* 0..=255.
IsU8(u) ==
    \/ IsNumber(u) /\ u[2] >= 0 /\ u[2] <= 255
    \/ Kind(u) \in OpaqueBytes

\* Bitwise exclusive or of two naturals.
RECURSIVE Xor(_, _)
Xor(a, b) ==
    IF a = 0 THEN b
    ELSE IF b = 0 THEN a
    ELSE 2 * Xor(a \div 2, b \div 2) + ((a + b) % 2)

\* uN::to_be_bytes / from_be_bytes on `width` bytes; to_be_bytes keeps the low
\* `width` bytes of n, as the cast to the integer type does.
RECURSIVE to_be_bytes(_, _)
to_be_bytes(n, width) ==
    IF width = 0 THEN <<>>
    ELSE to_be_bytes(n \div 256, width - 1) \o <<Byte(n % 256)>>

RECURSIVE from_be_bytes(_)
from_be_bytes(bytes) ==
    IF bytes = <<>> THEN 0
    ELSE 256 * from_be_bytes(SubSeq(bytes, 1, Len(bytes) - 1)) + bytes[Len(bytes)][2]

\* ------------------------------------------------------------------------
\* serde, serde_json: the types that derive Serialize and Deserialize
\* ------------------------------------------------------------------------
\* A type is described by a tuple: its name, then its parameters.
StringT == <<"String">>
DateTime == <<"DateTime">>
UuidT == <<"Uuid">>
U64 == <<"u64">>
F32 == <<"f32">>
U8 == <<"u8">>
Bool == <<"bool">>
Enum(variants) == <<"enum", variants>>
Option(ty) == <<"Option", ty>>
Vec(ty) == <<"Vec", ty>>
Tuple(tys) == <<"tuple", tys>>
Array(ty, len) == Tuple([j \in 1..len |-> ty])
Field(name, ty) == [name |-> name, ty |-> ty]
Struct(fields) == <<"struct", fields>>

\* The types whose values are one token of serialized text.
Scalar(ty) == ty[1] \notin {"Option", "Vec", "tuple", "struct"}
IsScalar(u) ==
    \/ Kind(u) \in {"n", "#", "s", "t", "u"} \cup OpaqueBytes
    \/ Kind(u) = "p" /\ u[2] \in {"null", "true", "false"}

\* The position of the first closing bracket at or after position i, 0 when
\* there is none.
closing(toks, i) ==
    LET ends == {j \in i..Len(toks) : toks[j] = Punct("]")}
    IN  IF ends = {} THEN 0 ELSE CHOOSE j \in ends : \A k \in ends : j <= k

\* What a parser returns: the value and the position after it.
Parsed(val, next) == [ok |-> TRUE, val |-> val, next |-> next]
NotParsed == [ok |-> FALSE, val |-> <<>>, next |-> 0]

\* The position after the JSON value that starts at position i, 0 when there
\* is no well-formed value: what serde_json skips for a field it ignores.
RECURSIVE value_end(_, _), array_end(_, _), array_end_from(_, _, _), object_end(_, _)
value_end(toks, i) ==
    LET t == At(toks, i)
    IN  IF t = Punct("[") THEN array_end(toks, i + 1)
        ELSE IF t = Punct("{") THEN object_end(toks, i + 1)
        ELSE IF IsScalar(t) THEN i + 1
        ELSE 0
\* The elements are skipped one after the other; an array of one-token
\* values ends at the first closing bracket.
array_end(toks, i) == array_end_from(toks, i, closing(toks, i))
array_end_from(toks, i, end) ==
    IF end # 0 /\ \A j \in i..(end - 1) : IsScalar(toks[j]) THEN end + 1
    ELSE IF At(toks, i) = Punct("]") THEN i + 1
    ELSE IF value_end(toks, i) = 0 THEN 0
    ELSE array_end(toks, value_end(toks, i))
object_end(toks, i) ==
    IF At(toks, i) = Punct("}") THEN i + 1
    ELSE IF Kind(At(toks, i)) # "k" THEN 0
    ELSE LET next == value_end(toks, i + 1)
         IN  IF next = 0 THEN 0 ELSE object_end(toks, next)

\* The value of a struct from the fields met so far (`seen`, by name): a
\* field that was not met is None when it is an Option and an error otherwise.
StructValue(fields, seen, next) ==
    IF \A j \in DOMAIN fields :
            fields[j].name \in DOMAIN seen \/ fields[j].ty[1] = "Option"
    THEN [ok |-> TRUE,
          val |-> [name \in {fields[j].name : j \in DOMAIN fields} |->
                      IF name \in DOMAIN seen THEN seen[name] ELSE <<>>],
          next |-> next]
    ELSE NotParsed
FieldType(fields, name) == fields[CHOOSE j \in DOMAIN fields : fields[j].name = name].ty

\* What a parser returns for a value and for what follows it.
Wrapped(inner) == IF inner.ok THEN Parsed(<<inner.val>>, inner.next) ELSE NotParsed
Cons(val, rest) == IF rest.ok THEN Parsed(<<val>> \o rest.val, rest.next) ELSE NotParsed
Within(v, next) == IF v.ok /\ v.next = next THEN v ELSE NotParsed
Collected(vs, next) ==
    IF next # 0 /\ \A j \in DOMAIN vs : vs[j].ok
    THEN Parsed([j \in DOMAIN vs |-> vs[j].val], next) ELSE NotParsed
Named(fields, vals) ==
    IF vals.ok
    THEN StructValue(fields, [name \in {fields[j].name : j \in DOMAIN fields} |->
                        vals.val[CHOOSE j \in DOMAIN fields : fields[j].name = name]],
                     vals.next)
    ELSE NotParsed

\* The bytes at positions i..(end - 1) are u8 values written as they are.
Bytes(toks, i, end) ==
    \A j \in i..(end - 1) :
        \/ Kind(toks[j]) = "n" /\ toks[j][2] >= 0 /\ toks[j][2] <= 255
        \/ Kind(toks[j]) \in OpaqueBytes

\* Deserialize::deserialize for a value of type ty that starts at position i.
\* A derived struct is read from an object, taking the fields as they come:
\* in any order, an unknown field skipped, a repeated field refused and a
\* missing Option taken as None; or from an array of its fields in
\* declaration order. An enum of unit variants is read from the variant's name
\* or from the object {"Variant": null}.
RECURSIVE deserialize(_, _, _), deserialize_tuple(_, _, _), deserialize_vec(_, _, _),
          deserialize_rest(_, _, _, _), deserialize_map(_, _, _, _),
          deserialize_entry(_, _, _, _, _), deserialize_scalars(_, _, _, _)
deserialize(ty, toks, i) ==
    CASE ty[1] = "u8" ->
            IF IsU8(At(toks, i))
            THEN Parsed(IF IsNumber(toks[i]) THEN Byte(toks[i][2]) ELSE toks[i], i + 1)
            ELSE NotParsed
      [] ty[1] = "String" ->
            IF Kind(At(toks, i)) \in {"s", "u"} THEN Parsed(toks[i][2], i + 1)
            ELSE IF Kind(At(toks, i)) = "t" THEN Parsed(ToString(toks[i][2]), i + 1)
            ELSE NotParsed
      [] ty[1] = "DateTime" ->
            IF Kind(At(toks, i)) = "t" THEN Parsed(toks[i][2], i + 1) ELSE NotParsed
      [] ty[1] = "Uuid" ->
            IF Kind(At(toks, i)) = "u" THEN Parsed(toks[i][2], i + 1) ELSE NotParsed
      [] ty[1] = "u64" ->
            IF IsNumber(At(toks, i)) /\ toks[i][2] >= 0 THEN Parsed(toks[i][2], i + 1)
            ELSE NotParsed
      [] ty[1] = "f32" ->
            IF IsNumber(At(toks, i)) THEN Parsed(toks[i][2], i + 1) ELSE NotParsed
      [] ty[1] = "bool" ->
            IF At(toks, i) \in {Punct("true"), Punct("false")}
            THEN Parsed(toks[i] = Punct("true"), i + 1) ELSE NotParsed
      [] ty[1] = "enum" ->
            IF Kind(At(toks, i)) = "s" /\ toks[i][2] \in ty[2]
            THEN Parsed(toks[i][2], i + 1)
            ELSE IF /\ At(toks, i) = Punct("{")
                    /\ Kind(At(toks, i + 1)) = "k" /\ toks[i + 1][2] \in ty[2]
                    /\ At(toks, i + 2) = Punct("null")
                    /\ At(toks, i + 3) = Punct("}")
            THEN Parsed(toks[i + 1][2], i + 4)
            ELSE NotParsed
      [] ty[1] = "Option" ->
            IF At(toks, i) = Punct("null") THEN Parsed(<<>>, i + 1)
            ELSE Wrapped(deserialize(ty[2], toks, i))
      [] ty[1] = "Vec" ->
            IF At(toks, i) = Punct("[") THEN deserialize_vec(ty[2], toks, i + 1)
            ELSE NotParsed
      [] ty[1] = "tuple" ->
            IF At(toks, i) = Punct("[") THEN deserialize_tuple(ty[2], toks, i + 1)
            ELSE NotParsed
      [] ty[1] = "struct" ->
            IF At(toks, i) = Punct("[")
            THEN Named(ty[2], deserialize_tuple([j \in DOMAIN ty[2] |-> ty[2][j].ty],
                                                toks, i + 1))
            ELSE IF At(toks, i) = Punct("{")
            THEN deserialize_map(ty[2], toks, i + 1, <<>>)
            ELSE NotParsed
\* One value of each type of tys, then the closing bracket; values of one
\* token are at the positions that follow one another.
deserialize_tuple(tys, toks, i) ==
    IF tys = <<>>
    THEN IF At(toks, i) = Punct("]") THEN Parsed(<<>>, i + 1) ELSE NotParsed
    ELSE IF \A j \in DOMAIN tys : tys[j] = U8
    THEN IF At(toks, i + Len(tys)) = Punct("]") /\ Bytes(toks, i, i + Len(tys))
         THEN Parsed(SubSeq(toks, i, i + Len(tys) - 1), i + Len(tys) + 1)
         ELSE Collected([j \in DOMAIN tys |-> deserialize(tys[j], toks, i + j - 1)],
                        IF At(toks, i + Len(tys)) = Punct("]") THEN i + Len(tys) + 1 ELSE 0)
    ELSE IF \A j \in DOMAIN tys : Scalar(tys[j])
    THEN Collected([j \in DOMAIN tys |-> deserialize(tys[j], toks, i + j - 1)],
                   IF At(toks, i + Len(tys)) = Punct("]") THEN i + Len(tys) + 1 ELSE 0)
    ELSE deserialize_rest(tys, toks, deserialize(Head(tys), toks, i), FALSE)
\* Values of type ty up to the closing bracket.
deserialize_vec(ty, toks, i) ==
    IF At(toks, i) = Punct("]") THEN Parsed(<<>>, i + 1)
    ELSE IF Scalar(ty)
    THEN deserialize_scalars(ty, toks, i, closing(toks, i))
    ELSE deserialize_rest(<<ty>>, toks, deserialize(ty, toks, i), TRUE)
\* Values of one token each up to the closing bracket at position end.
deserialize_scalars(ty, toks, i, end) ==
    IF end # 0 /\ ty = U8 /\ Bytes(toks, i, end)
    THEN Parsed(SubSeq(toks, i, end - 1), end + 1)
    ELSE Collected([j \in 1..(end - i) |-> deserialize(ty, toks, i + j - 1)],
                   IF end = 0 THEN 0 ELSE end + 1)
\* What follows the value `first`: the values of the types after the first of
\* tys, or more values of the same type.
deserialize_rest(tys, toks, first, more) ==
    IF ~first.ok THEN NotParsed
    ELSE Cons(first.val, IF more THEN deserialize_vec(Head(tys), toks, first.next)
                         ELSE deserialize_tuple(Tail(tys), toks, first.next))
\* The fields of a struct from the members of an object, the next key at
\* position i, with the fields `seen` before it.
deserialize_map(fields, toks, i, seen) ==
    IF At(toks, i) = Punct("}") THEN StructValue(fields, seen, i + 1)
    ELSE IF Kind(At(toks, i)) # "k" THEN NotParsed
    ELSE IF toks[i][2] \in DOMAIN seen THEN NotParsed
    ELSE IF \E j \in DOMAIN fields : fields[j].name = toks[i][2]
    THEN deserialize_entry(fields, toks, seen, toks[i][2],
                           deserialize(FieldType(fields, toks[i][2]), toks, i + 1))
    ELSE IF value_end(toks, i + 1) = 0 THEN NotParsed
    ELSE deserialize_map(fields, toks, value_end(toks, i + 1), seen)
deserialize_entry(fields, toks, seen, name, v) ==
    IF ~v.ok THEN NotParsed
    ELSE deserialize_map(fields, toks, v.next, (name :> v.val) @@ seen)

\* serde_json::from_slice: one value of type ty and nothing after it.
from_slice(ty, toks) == Within(deserialize(ty, toks, 1), Len(toks) + 1)

\* Serialize::serialize as serde_json::to_vec writes it: a struct as an
\* object with its fields in declaration order.
RECURSIVE serialize(_, _), serialize_each(_, _), serialize_fields(_, _)
serialize(ty, v) ==
    CASE ty[1] \in {"String", "enum"} -> <<Str(v)>>
      [] ty[1] = "DateTime" -> <<Time(v)>>
      [] ty[1] = "Uuid" -> <<Uuid(v)>>
      [] ty[1] \in {"u64", "f32"} -> <<Num(v)>>
      [] ty[1] = "u8" -> <<v>>
      [] ty[1] = "bool" -> <<Punct(IF v THEN "true" ELSE "false")>>
      [] ty[1] = "Option" -> IF v = <<>> THEN <<Punct("null")>> ELSE serialize(ty[2], v[1])
      [] ty[1] = "Vec" ->
            IF ty[2] = U8 THEN <<Punct("[")>> \o v \o <<Punct("]")>>
            ELSE <<Punct("[")>> \o serialize_each([j \in DOMAIN v |-> ty[2]], v)
                    \o <<Punct("]")>>
      [] ty[1] = "tuple" ->
            <<Punct("[")>> \o serialize_each(ty[2], v) \o <<Punct("]")>>
      [] ty[1] = "struct" ->
            <<Punct("{")>> \o serialize_fields(ty[2], v) \o <<Punct("}")>>
serialize_each(tys, vs) ==
    IF tys = <<>> THEN <<>>
    ELSE IF \A j \in DOMAIN tys : tys[j] = U8 THEN vs
    ELSE IF \A j \in DOMAIN tys : Scalar(tys[j])
    THEN [j \in DOMAIN tys |-> serialize(tys[j], vs[j])[1]]
    ELSE serialize(Head(tys), Head(vs)) \o serialize_each(Tail(tys), Tail(vs))
serialize_fields(fields, v) ==
    IF fields = <<>> THEN <<>>
    ELSE <<Key(Head(fields).name)>> \o serialize(Head(fields).ty, v[Head(fields).name])
            \o serialize_fields(Tail(fields), v)

\* A JSON array of u8 starting at position i; len = 0 accepts any length
\* (Vec<u8>), another len only that length ([u8; len]).
parse_array(toks, i, len) ==
    deserialize(IF len = 0 THEN Vec(U8) ELSE Array(U8, len), toks, i)

json_array(bytes) == serialize(Vec(U8), bytes)

\* ------------------------------------------------------------------------
\* error.rs: the other kinds of SampleGuardError
\* ------------------------------------------------------------------------
EncryptionError(msg) == [kind |-> "EncryptionError", msg |-> msg]
TagParseError(msg) == [kind |-> "TagParseError", msg |-> msg]
TagMemoryError(msg) == [kind |-> "TagMemoryError", msg |-> msg]
InvalidSampleData(msg) == [kind |-> "InvalidSampleData", msg |-> msg]
IntegrityViolation(result) ==
    [kind |-> "IntegrityViolation", msg |-> <<>>, validation |-> result]

\* ------------------------------------------------------------------------
\* encryption.rs
\* ------------------------------------------------------------------------
BlockSize == 16
IvLen == 16
MinCiphertext == 32

\* RFIDEncryption::new: the key is SHA-256 of the master key.
RFIDEncryption_new(master_key) == <<"sha256", master_key>>

\* RFIDEncryption::hash: SHA-256, stood for by one element holding what was
\* hashed (the 32 bytes of the digest are not told apart).
hash(data) == << <<"sha256", data>> >>

\* AES-256 in CBC mode. The block cipher is a permutation of blocks the model
\* does not compute: a byte of a ciphertext block records its position in the
\* block and what determines the block, which is the key, the IV and the
\* padded plaintext up to the end of the block, each block of it by its name
\* (`chain`). `mask` is what was xored onto the byte after the encryption.
\* `plain` and `first` are the byte of the plaintext block and the byte of
\* the IV at this position, which the block named so far determines.
Name(bytes) == ToString(bytes)
Names(chain) ==
    [b \in 1..(Len(chain) \div BlockSize) |->
        Name(SubSeq(chain, BlockSize * (b - 1) + 1, BlockSize * b))]
CipherByte(key, iv, chain, at, mask, plain, first) ==
    <<"c", [key |-> key, iv |-> iv, chain |-> chain, at |-> at, mask |-> mask,
            plain |-> plain, first |-> first]>>

\* A byte the model knows nothing about.
Garbage == <<"x", 0>>

\* What the bytes the model does not compute turn out to be, one choice per
\* decryption. pad: the length of the well-formed padding that random bytes
\* at the end of the last block happen to form, any of 1..=16, 0 for none.
\* text: whether a token of serialized text with a changed character is still
\* a token of its kind.
GarbledPads == 0..BlockSize
Chances == [pad : GarbledPads, text : {"other", "broken"}]
NoChance == [pad |-> 0, text |-> "broken"]

\* The element u with mask xored onto it.
Masked(u, mask) ==
    IF mask = 0 THEN u
    ELSE IF Kind(u) = "n" THEN Byte(Xor(u[2], mask))
    ELSE IF Kind(u) = "c" THEN <<"c", [u[2] EXCEPT !.mask = Xor(@, mask)]>>
    ELSE Garbage

\* What was xored onto the element `prev` of the previous ciphertext block
\* (of the IV for the first block) since the byte `made` was encrypted after
\* it, -1 when prev is not that element.
Delta(prev, made) ==
    IF Len(made.chain) = 1
    THEN IF Kind(prev) = "n" /\ Kind(made.first) = "n" THEN Xor(prev[2], made.first[2])
         ELSE IF prev = made.first THEN 0 ELSE -1
    ELSE IF /\ Kind(prev) = "c"
            /\ prev[2].key = made.key /\ prev[2].iv = made.iv /\ prev[2].at = made.at
            /\ prev[2].chain = SubSeq(made.chain, 1, Len(made.chain) - 1)
         THEN prev[2].mask
    ELSE -1

\* The plaintext element u after delta was xored onto it: a byte is computed,
\* a bracket or literal is no token any more, another token is a different
\* token of its kind or none.
Altered(u, delta, chance) ==
    IF delta = 0 THEN u
    ELSE IF delta = -1 \/ Kind(u) \in {"p", "x"} THEN Garbage
    ELSE IF Kind(u) = "n" THEN Byte(Xor(u[2], delta))
    ELSE IF chance.text = "broken" THEN Garbage
    ELSE CASE Kind(u) \in {"s", "k", "u"} -> <<Kind(u), u[2] \o "^">>
           [] Kind(u) \in {"t", "#"} -> <<Kind(u), u[2] + 1>>
           [] OTHER -> <<Kind(u), <<"^", u[2]>>>>

\* Encryptor::encrypt_block_mut for the last block of chain.
Enciphered(key, iv, name, chain, block) ==
    [at \in 1..BlockSize |-> CipherByte(key, name, chain, at, 0, block[at], iv[at])]
encrypt_block_mut(key, iv, chain) ==
    Enciphered(key, iv, Name(iv), Names(chain),
               SubSeq(chain, Len(chain) - BlockSize + 1, Len(chain)))

\* The blocks of message up to the one ending at upto and all after it.
RECURSIVE encrypt_blocks_mut(_, _, _, _)
encrypt_blocks_mut(key, iv, message, upto) ==
    IF upto > Len(message) THEN <<>>
    ELSE encrypt_block_mut(key, iv, SubSeq(message, 1, upto))
            \o encrypt_blocks_mut(key, iv, message, upto + BlockSize)

\* Decryptor::decrypt_block_mut: the block cipher is undone and the previous
\* ciphertext block (the IV for the first) xored on. A block that is not as
\* the encryption under this key left it comes out of the cipher as random
\* bytes; the block of the encryption comes out as the plaintext block xored
\* with the previous block of the encryption, so what was changed in the
\* previous block shows in the same bytes of this one.
Genuine(key, block) ==
    /\ Kind(block[1]) = "c"
    /\ block[1][2].key = key /\ block[1][2].mask = 0 /\ block[1][2].at = 1
    /\ \A at \in 2..BlockSize :
            /\ Kind(block[at]) = "c"
            /\ block[at][2].at = at /\ block[at][2].mask = 0
            /\ block[at][2].key = key
            /\ block[at][2].iv = block[1][2].iv
            /\ block[at][2].chain = block[1][2].chain
decrypt_block_mut(key, block, prev, chance) ==
    IF Genuine(key, block)
    THEN [at \in 1..BlockSize |->
            Altered(block[at][2].plain, Delta(prev[at], block[at][2]), chance)]
    ELSE [at \in 1..BlockSize |-> Garbage]

RECURSIVE decrypt_blocks_mut(_, _, _, _)
decrypt_blocks_mut(key, prev, buffer, chance) ==
    IF buffer = <<>> THEN <<>>
    ELSE decrypt_block_mut(key, SubSeq(buffer, 1, BlockSize), prev, chance)
            \o decrypt_blocks_mut(key, SubSeq(buffer, 1, BlockSize),
                                  SubSeq(buffer, BlockSize + 1, Len(buffer)), chance)

\* Pkcs7::unpad on the decrypted blocks: the last byte n is in 1..=16 and the
\* last n bytes are n.
Lucky(plain, chance) ==
    /\ chance.pad >= 1
    /\ \A at \in (Len(plain) - chance.pad + 1)..Len(plain) :
            plain[at] \in {Garbage, Byte(chance.pad)}
Padding(plain, last) ==
    IF /\ Kind(last) = "n"
       /\ last[2] \in 1..BlockSize
       /\ \A at \in (Len(plain) - last[2] + 1)..(Len(plain) - 1) : plain[at] = last
    THEN Ok(SubSeq(plain, 1, Len(plain) - last[2]))
    ELSE Err(EncryptionError(<<"Decryption failed: ", "UnpadError">>))
unpad(plain, chance) ==
    IF Lucky(plain, chance)
    THEN Ok(SubSeq(plain, 1, Len(plain) - chance.pad))
    ELSE Padding(plain, plain[Len(plain)])

\* pad_pkcs7: Pkcs7 padding, a whole block of it after a message that fills
\* its last block.
pad_pkcs7_NoFullBlock(data, block_size) ==
    LET pad_len == (block_size - (Len(data) % block_size)) % block_size
    IN  data \o [j \in 1..pad_len |-> Byte(pad_len)]
pad_pkcs7(data, block_size) ==
    LET pad_len == block_size - (Len(data) % block_size)
    IN  data \o [j \in 1..pad_len |-> Byte(pad_len)]

\* cbc: encrypt_padded_mut::<Pkcs7>(&mut buffer, msg_len) pads the message
\* held in the first msg_len bytes of the buffer in place and encrypts it;
\* it fails when the buffer has no room for the padding.
Pkcs7_pad(message, n) == message \o [j \in 1..n |-> Byte(n)]
encrypt_padded_mut(key, iv, buffer, msg_len) ==
    IF Len(buffer) < ((msg_len \div BlockSize) + 1) * BlockSize
    THEN Err(EncryptionError(<<"Encryption failed: ", "PadError">>))
    ELSE Ok(encrypt_blocks_mut(key, iv,
                               Pkcs7_pad(SubSeq(buffer, 1, msg_len),
                                         BlockSize - (msg_len % BlockSize)),
                               BlockSize)
            \o SubSeq(buffer, ((msg_len \div BlockSize) + 1) * BlockSize + 1, Len(buffer)))

\* cbc: decrypt_padded_mut::<Pkcs7>(&mut buffer) wants whole blocks and a
\* well-formed padding at the end of the last one.
decrypt_padded_mut(key, iv, buffer, chance) ==
    IF Len(buffer) % BlockSize # 0 \/ buffer = <<>>
    THEN Err(EncryptionError(<<"Decryption failed: ", "UnpadError">>))
    ELSE unpad(decrypt_blocks_mut(key, iv, buffer, chance), chance)

\* RFIDEncryption::encrypt; iv is what thread_rng().fill_bytes returned.
encrypt(key, plaintext, iv) ==
    LET padded == pad_pkcs7(plaintext, BlockSize)
        buffer == encrypt_padded_mut(key, iv, padded, Len(plaintext))
    IN  IF ~buffer.ok THEN buffer ELSE Ok(iv \o buffer.val)

\* The ciphertext is as encrypt returned it under this key: decrypt then
\* computes every byte it returns.
AsEncrypted(key, ciphertext) ==
    /\ Len(ciphertext) >= MinCiphertext /\ Len(ciphertext) % BlockSize = 0
    /\ \A b \in 1..((Len(ciphertext) \div BlockSize) - 1) :
            /\ Genuine(key, SubSeq(ciphertext, BlockSize * b + 1, BlockSize * (b + 1)))
            /\ \A at \in 1..BlockSize :
                    Delta(ciphertext[BlockSize * (b - 1) + at],
                          ciphertext[BlockSize * b + at][2]) = 0

\* RFIDEncryption::decrypt
decrypt(key, ciphertext, chance) ==
    IF Len(ciphertext) < MinCiphertext
    THEN Err(EncryptionError(
            <<"Ciphertext too short (need at least 32 bytes: 16 IV + 16 encrypted)">>))
    ELSE LET iv == SubSeq(ciphertext, 1, IvLen)
             encrypted_data == SubSeq(ciphertext, IvLen + 1, Len(ciphertext))
         IN  decrypt_padded_mut(key, iv, encrypted_data, chance)

\* ------------------------------------------------------------------------
\* tag.rs
\* ------------------------------------------------------------------------
HeaderLen == 16
MetadataLen == 16
TimestampLen == 8
PrefixLen == 4
\* [u8; 32] of the digest, one element in the model (see hash).
HashLen == 1

TagMemoryLayout ==
    Struct(<<Field("header", Array(U8, HeaderLen)),
             Field("payload", Vec(U8)),
             Field("integrity_hash", Array(U8, HashLen)),
             Field("metadata", Array(U8, MetadataLen))>>)
RFIDTag ==
    Struct(<<Field("tag_id", StringT),
             Field("memory_layout", TagMemoryLayout),
             Field("encryption_enabled", Bool)>>)

\* RFIDTag::new; iv and timestamp are the random IV and the clock reading.
RFIDTag_new(tag_id, payload, key, iv, timestamp) ==
    LET encrypted_payload == encrypt(key, payload, iv)
    IN  IF ~encrypted_payload.ok THEN encrypted_payload
        ELSE Ok([tag_id |-> tag_id,
                 memory_layout |->
                    [header |-> [j \in 1..HeaderLen |-> Byte(IF j <= 3 THEN 1 ELSE 0)],
                     payload |-> encrypted_payload.val,
                     integrity_hash |-> hash(encrypted_payload.val),
                     metadata |-> to_be_bytes(timestamp, TimestampLen)
                                    \o [j \in 1..(MetadataLen - TimestampLen) |-> Byte(0)]],
                 encryption_enabled |-> TRUE])

\* serde_json::to_vec(&RFIDTag)
tag_to_json(tag) == serialize(RFIDTag, tag)

\* serde_json::from_slice::<RFIDTag>
tag_from_json(toks) ==
    LET tag == from_slice(RFIDTag, toks)
    IN  IF tag.ok THEN Ok(tag.val)
        ELSE Err(TagParseError(<<"Deserialization failed: ", "serde_json::Error">>))

\* RFIDTag::to_bytes: `json.len() as u32` keeps the low 32 bits, which are the
\* four bytes to_be_bytes writes.
to_bytes_CountsPrefix(tag) ==
    LET json == tag_to_json(tag)
        len == Len(json) + PrefixLen
    IN  Ok(to_be_bytes(len, PrefixLen) \o json)
to_bytes(tag) ==
    LET json == tag_to_json(tag)
        len == Len(json)
    IN  Ok(to_be_bytes(len, PrefixLen) \o json)

\* RFIDTag::from_bytes
from_bytes(data) ==
    IF Len(data) < PrefixLen
    THEN Err(TagParseError(<<"Data too short for tag">>))
    ELSE LET len == from_be_bytes(SubSeq(data, 1, PrefixLen))
         IN  IF Len(data) < PrefixLen + len
             THEN Err(TagParseError(<<"Incomplete tag data">>))
             ELSE tag_from_json(SubSeq(data, PrefixLen + 1, PrefixLen + len))

\* RFIDTag::decrypt_payload
decrypt_payload_DecryptFirst(tag, key, chance) ==
    LET decrypted == decrypt(key, tag.memory_layout.payload, chance)
    IN  IF ~decrypted.ok THEN decrypted
        ELSE IF hash(tag.memory_layout.payload) # tag.memory_layout.integrity_hash
             THEN Err(TagMemoryError(<<"Integrity hash mismatch - tag may be corrupted">>))
             ELSE decrypted
decrypt_payload(tag, key, chance) ==
    LET calculated_hash == hash(tag.memory_layout.payload)
    IN  IF calculated_hash # tag.memory_layout.integrity_hash
        THEN Err(TagMemoryError(<<"Integrity hash mismatch - tag may be corrupted">>))
        ELSE decrypt(key, tag.memory_layout.payload, chance)

\* RFIDTag::increment_read_count: the count is the second half of the
\* metadata, big-endian.
RFIDTag_increment_read_count(tag) ==
    LET read_count == from_be_bytes(SubSeq(tag.memory_layout.metadata, TimestampLen + 1,
                                           MetadataLen))
        new_count == read_count + 1
    IN  [tag EXCEPT !.memory_layout.metadata =
            SubSeq(@, 1, TimestampLen) \o to_be_bytes(new_count, MetadataLen - TimestampLen)]

\* ------------------------------------------------------------------------
\* sample.rs, integrity.rs
\* ------------------------------------------------------------------------
\* Times are counted in ticks, TicksPerDay to the day; Duration::num_days
\* truncates towards zero.
TicksPerDay == 2
num_days(duration) ==
    IF duration >= 0 THEN duration \div TicksPerDay ELSE -((-duration) \div TicksPerDay)

\* IntegrityValidator::new and the window of the ApproachingExpiry warning.
max_read_count == 1000
ApproachingExpiryDays == 30

\* The types of sample.rs as serde sees them.
SampleStatuses == {"InProduction", "InTransit", "Stored", "InUse", "Consumed",
                   "Discarded", "Compromised"}
SampleMetadata ==
    Struct(<<Field("batch_number", StringT),
             Field("production_date", DateTime),
             Field("expiry_date", Option(DateTime)),
             Field("temperature_range", Option(Tuple(<<F32, F32>>))),
             Field("storage_conditions", StringT),
             Field("manufacturer", StringT),
             Field("product_line", StringT)>>)
Sample ==
    Struct(<<Field("id", UuidT),
             Field("sample_id", StringT),
             Field("status", Enum(SampleStatuses)),
             Field("metadata", SampleMetadata),
             Field("created_at", DateTime),
             Field("last_updated", DateTime),
             Field("read_count", U64),
             Field("location", Option(StringT)),
             Field("integrity_checksum", Array(U8, HashLen))>>)

\* Sample::calculate_checksum: SHA-256 over the bytes of sample_id, directly
\* followed by the bytes of batch_number and the eight bytes of the timestamp
\* in seconds. The two texts run together: what is hashed does not tell where
\* one ends and the other starts.
SecondsLen == 8
calculate_checksum(sample_id, batch_number, timestamp) ==
    hash(<<Str(sample_id \o batch_number)>> \o to_be_bytes(timestamp, SecondsLen))

verify_integrity(s) ==
    calculate_checksum(s.sample_id, s.metadata.batch_number, s.last_updated)
        = s.integrity_checksum

is_expired(s, now) ==
    IF s.metadata.expiry_date # None THEN now > s.metadata.expiry_date[1] ELSE FALSE

\* validate, `let is_valid = violations.is_empty()`.
is_valid_NoWarnings(violations, warnings) == violations = <<>> /\ warnings = <<>>
is_valid(violations, warnings) == violations = <<>>

validate_FirstViolationOnly(s, now1, now2, now3) ==
    LET checksum == IF ~verify_integrity(s) THEN <<"ChecksumMismatch">> ELSE <<>>
        expired == IF is_expired(s, now1) THEN <<"Expired">> ELSE <<>>
        approaching ==
            IF ~is_expired(s, now1) /\ s.metadata.expiry_date # None
            THEN LET days_until_expiry == num_days(s.metadata.expiry_date[1] - now2)
                 IN  IF days_until_expiry <= ApproachingExpiryDays /\ days_until_expiry > 0
                     THEN <<"ApproachingExpiry">> ELSE <<>>
            ELSE <<>>
        status == IF s.status = "Compromised" THEN <<"StatusInvalid">> ELSE <<>>
        read_anomaly == IF s.read_count > max_read_count
                        THEN <<"ReadCountAnomaly">> ELSE <<>>
        high_reads == IF ~(s.read_count > max_read_count)
                         /\ s.read_count > max_read_count \div 2
                      THEN <<"HighReadCount">> ELSE <<>>
        timestamp == IF s.last_updated > now3 THEN <<"TimestampAnomaly">> ELSE <<>>
        temperature ==
            IF s.metadata.temperature_range # None
               /\ s.metadata.temperature_range[1][1] >= s.metadata.temperature_range[1][2]
            THEN <<"TemperatureOutOfRange">> ELSE <<>>
        all == checksum \o expired \o status \o read_anomaly \o timestamp \o temperature
        violations == IF all = <<>> THEN <<>> ELSE <<all[1]>>
        warnings == approaching \o high_reads
    IN  Ok([is_valid |-> is_valid(violations, warnings),
            violations |-> violations,
            warnings |-> warnings])

validate_WarnsAboveCeiling(s, now1, now2, now3) ==
    LET checksum == IF ~verify_integrity(s) THEN <<"ChecksumMismatch">> ELSE <<>>
        expired == IF is_expired(s, now1) THEN <<"Expired">> ELSE <<>>
        approaching ==
            IF ~is_expired(s, now1) /\ s.metadata.expiry_date # None
            THEN LET days_until_expiry == num_days(s.metadata.expiry_date[1] - now2)
                 IN  IF days_until_expiry <= ApproachingExpiryDays /\ days_until_expiry > 0
                     THEN <<"ApproachingExpiry">> ELSE <<>>
            ELSE <<>>
        status == IF s.status = "Compromised" THEN <<"StatusInvalid">> ELSE <<>>
        read_anomaly == IF s.read_count > max_read_count
                        THEN <<"ReadCountAnomaly">> ELSE <<>>
        high_reads == IF s.read_count > max_read_count \div 2
                      THEN <<"HighReadCount">> ELSE <<>>
        timestamp == IF s.last_updated > now3 THEN <<"TimestampAnomaly">> ELSE <<>>
        temperature ==
            IF s.metadata.temperature_range # None
               /\ s.metadata.temperature_range[1][1] >= s.metadata.temperature_range[1][2]
            THEN <<"TemperatureOutOfRange">> ELSE <<>>
        violations == checksum \o expired \o status \o read_anomaly \o timestamp \o temperature
        warnings == approaching \o high_reads
    IN  Ok([is_valid |-> is_valid(violations, warnings),
            violations |-> violations,
            warnings |-> warnings])

\* IntegrityValidator::validate; now1, now2, now3 are the readings of Utc::now()
\* in is_expired, in the days-until-expiry computation and in the timestamp
\* check.
validate(s, now1, now2, now3) ==
    LET checksum == IF ~verify_integrity(s) THEN <<"ChecksumMismatch">> ELSE <<>>
        expired == IF is_expired(s, now1) THEN <<"Expired">> ELSE <<>>
        approaching ==
            IF ~is_expired(s, now1) /\ s.metadata.expiry_date # None
            THEN LET days_until_expiry == num_days(s.metadata.expiry_date[1] - now2)
                 IN  IF days_until_expiry <= ApproachingExpiryDays /\ days_until_expiry > 0
                     THEN <<"ApproachingExpiry">> ELSE <<>>
            ELSE <<>>
        status == IF s.status = "Compromised" THEN <<"StatusInvalid">> ELSE <<>>
        read_anomaly == IF s.read_count > max_read_count
                        THEN <<"ReadCountAnomaly">> ELSE <<>>
        high_reads == IF ~(s.read_count > max_read_count)
                         /\ s.read_count > max_read_count \div 2
                      THEN <<"HighReadCount">> ELSE <<>>
        timestamp == IF s.last_updated > now3 THEN <<"TimestampAnomaly">> ELSE <<>>
        temperature ==
            IF s.metadata.temperature_range # None
               /\ s.metadata.temperature_range[1][1] >= s.metadata.temperature_range[1][2]
            THEN <<"TemperatureOutOfRange">> ELSE <<>>
        violations == checksum \o expired \o status \o read_anomaly \o timestamp \o temperature
        warnings == approaching \o high_reads
    IN  Ok([is_valid |-> is_valid(violations, warnings),
            violations |-> violations,
            warnings |-> warnings])

\* The samples validated: every combination of the inputs of the rules. The
\* fields of Sample are public, so a caller can build each of them.
StatusInputs == {"InProduction", "Compromised"}
ExpiryInputs == {None} \cup {Some(t) : t \in {-1, 0, 1, 2, 3, 60, 61, 62, 63}}
TemperatureInputs == {None, Some(<<2, 8>>), Some(<<8, 2>>)}
ReadCountInputs == {0, 500, 501, 1000, 1001}
UpdatedInputs == {0, 1, 2}
ClockInputs == {0, 1}

NameInputs == {<<"SAMPLE001", "BATCH001">>, <<"SAMPLE001B", "ATCH001">>}

\* The metadata of create_test_sample, with the expiry date and the
\* temperature range given.
TestMetadata(batch_number, expiry_date, temperature_range) ==
    [batch_number |-> batch_number,
     production_date |-> 0,
     expiry_date |-> expiry_date,
     temperature_range |-> temperature_range,
     storage_conditions |-> "Refrigerated",
     manufacturer |-> "Test Pharma",
     product_line |-> "Vaccines"]

TestUuid == "00000000-0000-4000-8000-000000000001"

Samples ==
    { [id |-> TestUuid,
       sample_id |-> name[1],
       status |-> st,
       metadata |-> TestMetadata(name[2], ex, tr),
       created_at |-> 0,
       last_updated |-> lu,
       read_count |-> rc,
       location |-> None,
       integrity_checksum |-> calculate_checksum("SAMPLE001", "BATCH001",
                                                IF intact THEN lu ELSE lu - 1)] :
        name \in NameInputs, st \in StatusInputs, ex \in ExpiryInputs,
        tr \in TemperatureInputs, rc \in ReadCountInputs, lu \in UpdatedInputs,
        intact \in BOOLEAN }

\* ------------------------------------------------------------------------
\* sample.rs: construction, mutators, tag conversion
\* ------------------------------------------------------------------------
\* Sample::new; id is what Uuid::new_v4() drew and now is the reading of
\* Utc::now().
Sample_new(id, sample_id, metadata, location, now) ==
    [id |-> id,
     sample_id |-> sample_id,
     status |-> "InProduction",
     metadata |-> metadata,
     created_at |-> now,
     last_updated |-> now,
     read_count |-> 0,
     location |-> location,
     integrity_checksum |-> calculate_checksum(sample_id, metadata.batch_number, now)]

update_status(s, new_status, now) ==
    [s EXCEPT !.status = new_status,
              !.last_updated = now,
              !.integrity_checksum =
                    calculate_checksum(s.sample_id, s.metadata.batch_number, now)]

update_location(s, location, now) ==
    [s EXCEPT !.location = Some(location), !.last_updated = now]

increment_read_count(s, now) ==
    [s EXCEPT !.read_count = s.read_count + 1, !.last_updated = now]

\* serde_json::to_vec(&Sample)
sample_to_json(s) == serialize(Sample, s)

\* serde_json::from_slice::<Sample>
sample_from_json(toks) ==
    LET s == from_slice(Sample, toks)
    IN  IF s.ok THEN Ok(s.val)
        ELSE Err(InvalidSampleData(<<"Deserialization failed: ", "serde_json::Error">>))

DefaultMasterKey == <<"default_master_key_32_bytes_long!!">>

\* Sample::to_tag; iv and timestamp are what RFIDTag::new draws and reads.
to_tag(s, iv, timestamp) ==
    RFIDTag_new(s.sample_id, sample_to_json(s), RFIDEncryption_new(DefaultMasterKey),
                iv, timestamp)

\* Sample::from_tag
from_tag(tag, chance) ==
    LET decrypted == decrypt_payload(tag, RFIDEncryption_new(DefaultMasterKey), chance)
    IN  IF ~decrypted.ok THEN decrypted ELSE sample_from_json(decrypted.val)

\* ------------------------------------------------------------------------
\* reader.rs: MockRFIDReader, and lib.rs: SampleGuard
\* ------------------------------------------------------------------------
Mock_read_tag(stored_data) ==
    IF stored_data # None THEN Ok(stored_data[1])
    ELSE Err(ReaderError(<<"No tag in range">>))

Mock_write_tag(stored_data, data) == [ret |-> Ok("unit"), stored_data |-> Some(data)]

\* SampleGuard::read_sample, in the three parts the clock readings and the
\* bytes the model does not compute come into: the tag is read and parsed;
\* the sample is taken from it; the sample is validated.
read_sample_parse(tag_data) ==
    IF ~tag_data.ok THEN tag_data ELSE from_bytes(tag_data.val)
read_sample_decode(tag, chance) ==
    IF ~tag.ok THEN tag ELSE from_tag(tag.val, chance)
read_sample_validate_Nothing(s, validation) == s
read_sample_validate(s, validation) ==
    IF ~s.ok THEN s
    ELSE IF ~validation.ok THEN validation
    ELSE IF ~validation.val.is_valid THEN Err(IntegrityViolation(validation.val))
    ELSE Ok(s.val)
read_sample_finish(s, now1, now2, now3) ==
    read_sample_validate(s, IF s.ok THEN validate(s.val, now1, now2, now3) ELSE s)
read_sample(stored_data, chance, now1, now2, now3) ==
    read_sample_finish(
        read_sample_decode(read_sample_parse(Mock_read_tag(stored_data)), chance),
        now1, now2, now3)

\* SampleGuard::write_sample
write_sample_KeepsFirst(stored_data, s, iv, timestamp) ==
    LET tag == to_tag(s, iv, timestamp)
        tag_bytes == to_bytes(tag.val)
    IN  IF ~tag.ok THEN [ret |-> tag, stored_data |-> stored_data]
        ELSE IF ~tag_bytes.ok THEN [ret |-> tag_bytes, stored_data |-> stored_data]
        ELSE IF stored_data # None THEN [ret |-> Ok("unit"), stored_data |-> stored_data]
        ELSE Mock_write_tag(stored_data, tag_bytes.val)
write_sample(stored_data, s, iv, timestamp) ==
    LET tag == to_tag(s, iv, timestamp)
        tag_bytes == to_bytes(tag.val)
    IN  IF ~tag.ok THEN [ret |-> tag, stored_data |-> stored_data]
        ELSE IF ~tag_bytes.ok THEN [ret |-> tag_bytes, stored_data |-> stored_data]
        ELSE Mock_write_tag(stored_data, tag_bytes.val)

\* SampleGuard::check_integrity
check_integrity(s, now1, now2, now3) == validate(s, now1, now2, now3)

\* ------------------------------------------------------------------------
\* State
\* ------------------------------------------------------------------------
VARIABLES
    sim,          \* sim[r]: the registry of the TagSimulator owned by adapter r
    connected,    \* connected[r]: the adapter's connected flag
    power_level,  \* power_level[r]: config.power_level of the adapter
    scan,         \* the scan_tags call in progress: loop position and locals
    last,         \* the call entered most recently, and what it returned
    written,      \* history: written[r][e], the payloads of add_tag and of the successful
                  \* write_tag calls since, oldest first, as many of the latest as the
                  \* exploration keeps: the last one, or the last MaxKept
    okOps,        \* history: okOps[r][e], successful read_tag / write_tag calls since add_tag
    events,       \* events[d]: the events sent on driver d's channel and not yet received
    drv,          \* the driver operation entered most recently: position, locals, result
    sample,       \* the Sample handed to the validator, and the caller's Sample
    validation,   \* the validate call made most recently: clock readings and result
    codec,        \* the encryption / tag call made most recently, its inputs and result
    stored,       \* MockRFIDReader::stored_data
    wrote,        \* history: the Sample of the latest write_sample while the reader holds
                  \* what was written, and the number of write_sample calls
    clock,        \* the latest reading of the wall clock
    guard         \* the Sample / SampleGuard call made most recently and its result

\* The state outside the hardware layer.
coreVars == <<sample, validation, codec, stored, wrote, clock, guard>>

hardwareVars == <<sim, connected, power_level, scan, last, written, okOps, events, drv>>

vars == <<sim, connected, power_level, scan, last, written, okOps, events, drv, coreVars>>

\* The locals of scan_tags outside a call.
ScanIdle ==
    [pc |-> "idle", reader |-> "none", duration |-> 0, elapsed |-> 0, found |-> <<>>]

\* last.ret while the call has not returned yet.
Pending == [ok |-> FALSE, err |-> [kind |-> "Pending", msg |-> <<>>]]

\* One entry of `last`; polls counts the completed iterations of a scan's loop
\* (up to MaxPolls).
Call(op, r, arg, ret) == [op |-> op, reader |-> r, arg |-> arg, ret |-> ret, polls |-> 0]

\* One entry of `drv`: a call of operation `op` on driver d that has returned
\* `ret`; mark is the length of the log when the call was entered.
DrvCall(d, op, arg, mark, ret) ==
    [pc |-> "idle", driver |-> d, op |-> op, arg |-> arg, mark |-> mark, ret |-> ret,
     impinj_tags |-> <<>>, zebra_tags |-> <<>>]

\* validation before any validate call.
NotValidated == [now |-> <<>>, ret |-> Pending]

InitHardware ==
    /\ sim = [r \in Adapters |-> TagSimulator_new]
    /\ connected = [r \in Adapters |-> FALSE]
    /\ power_level = [r \in Adapters |-> IF IsImpinj(r) THEN ImpinjPower ELSE ZebraPower]
    /\ scan = ScanIdle
    /\ last = Call("new", "none", "none", Ok("unit"))
    /\ written = [r \in Adapters |-> [e \in AllEpcs |-> None]]
    /\ okOps = [r \in Adapters |-> [e \in AllEpcs |-> 0]]
    /\ events = [d \in Drivers |-> <<>>]
    /\ drv = DrvCall("A", "new", "none", 0, Ok("unit"))

\* No tag call made yet, nothing stored in the reader, no SampleGuard call made.
NoCodec ==
    [op |-> "none", key |-> <<>>, plaintext |-> <<>>, tag |-> None, encoded |-> None,
     bytes |-> None, cut |-> FALSE, intact |-> TRUE, with |-> <<>>, ret |-> Pending]

NoGuardCall == [op |-> "none", arg |-> None, now |-> <<>>, ret |-> Pending]

InitCore ==
    /\ codec = NoCodec
    /\ stored = None
    /\ wrote = [sample |-> None, count |-> 0]
    /\ clock = 0
    /\ guard = NoGuardCall

Init ==
    /\ InitHardware
    /\ sample = CHOOSE s \in Samples : validate(s, 0, 0, 0).val.is_valid
    /\ validation = NotValidated
    /\ InitCore

\* read_count is a u64; the exploration stops counting at MaxReadCount: a call
\* that would count past it is not explored.
BelowCap(r, epc) ==
    epc \in DOMAIN sim[r] => sim[r][epc].read_count < MaxReadCount

\* The same with the count stopped at `cap`.
Below(r, epc, cap) ==
    epc \in DOMAIN sim[r] => sim[r][epc].read_count < cap

\* The history of payloads after `data` was written, the latest `keep` of it.
Kept(payloads, data, keep) ==
    LET all == Append(payloads, data)
    IN  SubSeq(all, Max(1, Len(all) - keep + 1), Len(all))

\* ------------------------------------------------------------------------
\* TagSimulator operations, applied to the simulator of adapter r
\* (reached through get_simulator_mut)
\* ------------------------------------------------------------------------
SimAddTag(r, tag) ==
    /\ scan.pc = "idle"
    /\ sim' = [sim EXCEPT ![r] = add_tag(@, tag)]
    /\ last' = Call("add_tag", r, tag.epc, Ok("unit"))
    /\ written' = [written EXCEPT ![r][tag.epc] = Some(tag.data)]
    /\ okOps' = [okOps EXCEPT ![r][tag.epc] = 0]
    /\ UNCHANGED <<connected, power_level, scan, events, drv, coreVars>>

SimRemoveTag(r, epc) ==
    /\ scan.pc = "idle"
    /\ sim' = [sim EXCEPT ![r] = remove_tag(@, epc)]
    /\ last' = Call("remove_tag", r, epc, Ok("unit"))
    /\ written' = [written EXCEPT ![r][epc] = None]
    /\ okOps' = [okOps EXCEPT ![r][epc] = 0]
    /\ UNCHANGED <<connected, power_level, scan, events, drv, coreVars>>

\* read_tag, explored while the tag's counter is below `cap`.
SimReadTagUpTo(r, epc, draw, now, cap) ==
    /\ scan.pc = "idle"
    /\ \E out \in {read_tag(sim[r], epc, draw, now)} :
           /\ out.ret.ok => Below(r, epc, cap)
           /\ sim' = [sim EXCEPT ![r] = out.tags]
           /\ last' = Call("read_tag", r, epc, out.ret)
           /\ okOps' = IF out.ret.ok THEN [okOps EXCEPT ![r][epc] = @ + 1] ELSE okOps
    /\ UNCHANGED <<connected, power_level, scan, written, events, drv, coreVars>>

SimReadTag(r, epc, draw, now) == SimReadTagUpTo(r, epc, draw, now, MaxReadCount)

\* write_tag, explored while the tag's counter is below `cap`; the history
\* keeps the latest `keep` payloads.
SimWriteTagUpTo(r, epc, data, draw, now, cap, keep) ==
    /\ scan.pc = "idle"
    /\ \E out \in {write_tag(sim[r], epc, data, draw, now)} :
           /\ out.ret.ok => Below(r, epc, cap)
           /\ sim' = [sim EXCEPT ![r] = out.tags]
           /\ last' = Call("write_tag", r, epc, out.ret)
           /\ written' = IF out.ret.ok
                         THEN [written EXCEPT ![r][epc] = Kept(@, data, keep)]
                         ELSE written
           /\ okOps' = IF out.ret.ok THEN [okOps EXCEPT ![r][epc] = @ + 1] ELSE okOps
    /\ UNCHANGED <<connected, power_level, scan, events, drv, coreVars>>

SimWriteTag(r, epc, data, draw, now) ==
    SimWriteTagUpTo(r, epc, data, draw, now, MaxReadCount, 1)

\* scan_tags up to the first evaluation of the loop condition: start = now,
\* found_tags = Vec::new().
ScanStart(r, duration) ==
    /\ scan.pc = "idle"
    /\ scan' = [pc |-> "loop", reader |-> r, duration |-> duration, elapsed |-> 0,
                found |-> <<>>]
    /\ last' = Call("scan_tags", r, duration, Pending)
    /\ UNCHANGED <<sim, connected, power_level, written, okOps, events, drv, coreVars>>

\* One iteration of the while loop: the for loop over the registry, then the sleep.
ScanPoll_CountsObservation ==
    /\ scan.pc = "loop"
    /\ ScanContinue(scan.elapsed, scan.duration, scan.found, sim[scan.reader])
    /\ \E order \in Orders(DOMAIN sim[scan.reader]), draws \in [Epcs -> Draws], jitter \in Jitters :
          LET found == ScanPass(order, sim[scan.reader], scan.found, draws)
              seen == {found[i].epc : i \in 1..Len(found)} \ {scan.found[i].epc : i \in 1..Len(scan.found)}
          IN  /\ scan' = [scan EXCEPT
                             !.found = found,
                             !.elapsed = ScanElapsedAfterPoll(scan.elapsed, jitter)]
              /\ sim' = [sim EXCEPT ![scan.reader] =
                            [e \in DOMAIN @ |-> IF e \in seen
                                                THEN [@[e] EXCEPT !.read_count = @ + 1]
                                                ELSE @[e]]]
    /\ last' = [last EXCEPT !.polls = Min(@ + 1, MaxPolls)]
    /\ UNCHANGED <<connected, power_level, written, okOps, events, drv, coreVars>>
ScanPoll ==
    /\ scan.pc = "loop"
    /\ ScanContinue(scan.elapsed, scan.duration, scan.found, sim[scan.reader])
    /\ \E order \in Orders(DOMAIN sim[scan.reader]), draws \in [Epcs -> Draws], jitter \in Jitters :
          scan' = [scan EXCEPT
                     !.found = ScanPass(order, sim[scan.reader], scan.found, draws),
                     !.elapsed = ScanElapsedAfterPoll(scan.elapsed, jitter)]
    /\ last' = [last EXCEPT !.polls = Min(@ + 1, MaxPolls)]
    /\ UNCHANGED <<sim, connected, power_level, written, okOps, events, drv, coreVars>>

\* The loop condition is false: Ok(found_tags).
ScanReturn ==
    /\ scan.pc = "loop"
    /\ ~ScanContinue(scan.elapsed, scan.duration, scan.found, sim[scan.reader])
    /\ scan' = ScanIdle
    /\ last' = [last EXCEPT !.ret = Ok(scan.found)]
    /\ UNCHANGED <<sim, connected, power_level, written, okOps, events, drv, coreVars>>

\* ------------------------------------------------------------------------
\* Vendor adapters
\* ------------------------------------------------------------------------
\* A with_simulator that hands back a freshly built, unconnected adapter.
WithSimulator_FreshAdapter(r, simulator) ==
    /\ scan.pc = "idle"
    /\ sim' = [sim EXCEPT ![r] = simulator]
    /\ last' = Call("with_simulator", r, "simulator", Ok("unit"))
    /\ written' = [written EXCEPT ![r] =
                      [e \in AllEpcs |-> IF e \in DOMAIN simulator
                                      THEN Some(simulator[e].data) ELSE None]]
    /\ okOps' = [okOps EXCEPT ![r] =
                    [e \in AllEpcs |-> IF e \in DOMAIN simulator
                                    THEN simulator[e].read_count ELSE 0]]
    /\ connected' = [connected EXCEPT ![r] = FALSE]
    /\ UNCHANGED <<power_level, scan, events, drv, coreVars>>

\* with_simulator: the adapter's simulator is replaced, nothing else.
WithSimulator(r, simulator) ==
    /\ scan.pc = "idle"
    /\ sim' = [sim EXCEPT ![r] = simulator]
    /\ last' = Call("with_simulator", r, "simulator", Ok("unit"))
    /\ written' = [written EXCEPT ![r] =
                      [e \in AllEpcs |-> IF e \in DOMAIN simulator
                                      THEN Some(simulator[e].data) ELSE None]]
    /\ okOps' = [okOps EXCEPT ![r] =
                    [e \in AllEpcs |-> IF e \in DOMAIN simulator
                                    THEN simulator[e].read_count ELSE 0]]
    /\ UNCHANGED <<connected, power_level, scan, events, drv, coreVars>>

\* Whether the command reached the simulator and the simulator call succeeded.
TagAccessed(r, cmd, resp) ==
    cmd.type \in {"ReadTag", "WriteTag"} /\ connected[r] /\ resp.success

SendCommand(r, cmd, draw, now) ==
    /\ scan.pc = "idle"
    /\ \E out \in {send_command(r, connected[r], power_level[r], sim[r], cmd, draw, now)} :
         LET resp == out.ret.val
         IN
           /\ TagAccessed(r, cmd, resp) => BelowCap(r, cmd.epc)
           /\ sim' = [sim EXCEPT ![r] = out.tags]
           /\ connected' = [connected EXCEPT ![r] = out.connected]
           /\ power_level' = [power_level EXCEPT ![r] = out.power_level]
           /\ last' = Call("send_command", r, cmd, out.ret)
           /\ written' = IF TagAccessed(r, cmd, resp) /\ cmd.type = "WriteTag"
                         THEN [written EXCEPT ![r][cmd.epc] = Some(cmd.data)]
                         ELSE written
           /\ okOps' = IF TagAccessed(r, cmd, resp)
                       THEN [okOps EXCEPT ![r][cmd.epc] = @ + 1]
                       ELSE okOps
    /\ UNCHANGED <<scan, events, drv, coreVars>>

\* The identifiers get_tags may list first: any registered one; with an empty
\* registry the choice is not looked at.
FirstListed(r) == IF DOMAIN sim[r] = {} THEN {"none"} ELSE DOMAIN sim[r]

\* RFIDReader::read_tag on adapter r.
AdapterReadTag(r, draw, now) ==
    /\ scan.pc = "idle"
    /\ \E first \in FirstListed(r) :
       \E out \in {Adapter_read_tag(connected[r], sim[r], first, draw, now)} :
           /\ out.ret.ok => BelowCap(r, first)
           /\ sim' = [sim EXCEPT ![r] = out.tags]
           /\ last' = Call("adapter_read_tag", r, first, out.ret)
           /\ okOps' = IF out.ret.ok THEN [okOps EXCEPT ![r][first] = @ + 1] ELSE okOps
    /\ UNCHANGED <<connected, power_level, scan, written, events, drv, coreVars>>

\* RFIDReader::write_tag on adapter r.
AdapterWriteTag(r, data, draw, now) ==
    /\ scan.pc = "idle"
    /\ \E first \in FirstListed(r) :
       \E out \in {Adapter_write_tag(connected[r], sim[r], first, data, draw, now)} :
           /\ out.ret.ok => BelowCap(r, first)
           /\ sim' = [sim EXCEPT ![r] = out.tags]
           /\ last' = Call("adapter_write_tag", r, first, out.ret)
           /\ written' = IF out.ret.ok THEN [written EXCEPT ![r][first] = Some(data)]
                         ELSE written
           /\ okOps' = IF out.ret.ok THEN [okOps EXCEPT ![r][first] = @ + 1] ELSE okOps
    /\ UNCHANGED <<connected, power_level, scan, events, drv, coreVars>>

\* The random draw and the time of a command are read by the simulator only,
\* which the ReadTag and WriteTag arms alone call.
DrawsOf(cmd) == IF cmd.type \in {"ReadTag", "WriteTag"} THEN Draws ELSE {0}
TimesOf(cmd) == IF cmd.type \in {"ReadTag", "WriteTag"} THEN Times ELSE {MaxTime}

NextAdapter ==
    \/ \E r \in Readers, simulator \in SeedSimulators : WithSimulator(r, simulator)
    \/ \E r \in Readers, cmd \in ReaderCommands :
       \E draw \in DrawsOf(cmd), now \in TimesOf(cmd) : SendCommand(r, cmd, draw, now)
    \/ \E r \in Readers, draw \in Draws, now \in Times : AdapterReadTag(r, draw, now)
    \/ \E r \in Readers, data \in Payloads, draw \in Draws, now \in Times :
          AdapterWriteTag(r, data, draw, now)

SpecAdapter == Init /\ [][NextAdapter]_vars

\* ------------------------------------------------------------------------
\* HardwareDriver operations on instance d
\* ------------------------------------------------------------------------
\* The inputs of the driver's addressed operations: the demo tag with the
\* error gate, and an identifier no adapter holds.
DriverEpcs == {DemoEpc(DemoFaultyTag), "EPC-DEMO-009"}
DriverPayloads == {<<7, 8, 9>>}
ReaderTypes == {"impinj", "zebra", "acme"}

\* No driver operation is in progress.
DriverIdle == drv.pc = "idle" /\ scan.pc = "idle"

\* The log is explored up to MaxLog pending events: an operation that may log
\* n events is explored when they fit.
Room(d, n) == Len(events[d]) + n <= MaxLog

\* send_command of adapter r of a driver.
adapter_send_command(r, cmd, draw, now) ==
    IF IsImpinj(r)
    THEN Impinj_send_command(connected[r], power_level[r], sim[r], cmd, draw, now)
    ELSE Zebra_send_command(connected[r], power_level[r], sim[r], cmd, draw, now)

\* initialize_all: each adapter is announced, then initialized; the first
\* failure is returned.
InitializeAll(d) ==
    /\ DriverIdle
    /\ Room(d, 2)
    /\ \E i \in {initialize(adapter_send_command(ImpinjOf(d), Initialize, 0, 0))},
          z \in {initialize(adapter_send_command(ZebraOf(d), Initialize, 0, 0))} :
          LET first == log_event(events[d],
                                 ReaderInitialized(ImpinjName, protocol_version(ImpinjOf(d))))
              second == log_event(first,
                                  ReaderInitialized(ZebraName, protocol_version(ZebraOf(d))))
          IN  IF ~i.ret.ok
              THEN /\ events' = [events EXCEPT ![d] = first]
                   /\ connected' = [connected EXCEPT ![ImpinjOf(d)] = i.connected]
                   /\ drv' = DrvCall(d, "initialize_all", "none", Len(events[d]), Err(i.ret.err))
                   /\ last' = Call("initialize", ImpinjOf(d), "none", i.ret)
              ELSE /\ events' = [events EXCEPT ![d] = second]
                   /\ connected' = [connected EXCEPT ![ImpinjOf(d)] = i.connected,
                                                     ![ZebraOf(d)] = z.connected]
                   /\ drv' = DrvCall(d, "initialize_all", "none", Len(events[d]),
                                     IF z.ret.ok THEN Ok("unit") ELSE Err(z.ret.err))
                   /\ last' = Call("initialize", ZebraOf(d), "none", z.ret)
    /\ UNCHANGED <<sim, power_level, scan, written, okOps, coreVars>>

\* setup_demo_tags: both adapters' simulators are replaced by fresh ones
\* holding clones of the same five tags.
SetupDemoTags(d) ==
    /\ DriverIdle
    /\ sim' = [sim EXCEPT ![ImpinjOf(d)] = DemoSimulator, ![ZebraOf(d)] = DemoSimulator]
    /\ written' = [written EXCEPT
                      ![ImpinjOf(d)] = [e \in AllEpcs |-> IF e \in DemoEpcs
                                                         THEN Some(DemoTagData) ELSE None],
                      ![ZebraOf(d)] = [e \in AllEpcs |-> IF e \in DemoEpcs
                                                        THEN Some(DemoTagData) ELSE None]]
    /\ okOps' = [okOps EXCEPT ![ImpinjOf(d)] = [e \in AllEpcs |-> 0],
                              ![ZebraOf(d)] = [e \in AllEpcs |-> 0]]
    /\ drv' = DrvCall(d, "setup_demo_tags", "none", Len(events[d]), Ok("unit"))
    /\ last' = Call("get_simulator_mut", ZebraOf(d), "simulator", Ok("unit"))
    /\ UNCHANGED <<connected, power_level, scan, events, coreVars>>

\* The adapter a read_tag_<vendor> call in progress is addressed to.
ReadReader == IF drv.op = "read_tag_impinj" THEN ImpinjOf(drv.driver) ELSE ZebraOf(drv.driver)

\* read_tag_impinj / read_tag_zebra up to the command: the sleep for the
\* vendor's simulate_delay and the NetworkDelay event.
ReadTagBegin(d, r, epc) ==
    /\ DriverIdle
    /\ Room(d, 3)
    /\ BelowCap(r, epc)
    /\ events' = [events EXCEPT ![d] =
                     log_event(@, NetworkDelay(ReaderName(r), simulate_delay(r)))]
    /\ drv' = [DrvCall(d, IF IsImpinj(r) THEN "read_tag_impinj" ELSE "read_tag_zebra",
                       epc, Len(events[d]), Pending)
               EXCEPT !.pc = "read_send"]
    /\ UNCHANGED <<sim, connected, power_level, scan, last, written, okOps, coreVars>>

\* read_tag_impinj / read_tag_zebra from the command on.
ReadTagSend(draw, now) ==
    /\ drv.pc = "read_send"
    /\ LET d == drv.driver
           r == ReadReader
           cmd == ReadTag(drv.arg, "User")
       IN  \E out \in {adapter_send_command(r, cmd, draw, now)} :
             \E fin \in {read_tag_finish(ReaderName(r), drv.arg, out.ret)} :
               /\ sim' = [sim EXCEPT ![r] = out.tags]
               /\ connected' = [connected EXCEPT ![r] = out.connected]
               /\ power_level' = [power_level EXCEPT ![r] = out.power_level]
               /\ last' = Call("send_command", r, cmd, out.ret)
               /\ okOps' = IF TagAccessed(r, cmd, out.ret.val)
                           THEN [okOps EXCEPT ![r][cmd.epc] = @ + 1]
                           ELSE okOps
               /\ events' = [events EXCEPT ![d] = @ \o fin.events]
               /\ drv' = [drv EXCEPT !.pc = "idle", !.ret = fin.ret]
    /\ UNCHANGED <<scan, written, coreVars>>

\* write_tag_impinj: the sleep, the WriteTag command, one event.
WriteTagImpinj_SharedSimulator(d, epc, data, draw, now) ==
    /\ DriverIdle
    /\ Room(d, 1)
    /\ LET r == ImpinjOf(d)
           cmd == WriteTag(epc, "User", data)
       IN  \E out \in {adapter_send_command(r, cmd, draw, now)} :
             \E fin \in {write_tag_finish(ReaderName(r), epc, data, out.ret)} :
               /\ TagAccessed(r, cmd, out.ret.val) => BelowCap(r, epc)
               /\ sim' = [sim EXCEPT ![r] = out.tags, ![ZebraOf(d)] = out.tags]
               /\ connected' = [connected EXCEPT ![r] = out.connected]
               /\ power_level' = [power_level EXCEPT ![r] = out.power_level]
               /\ last' = Call("send_command", r, cmd, out.ret)
               /\ written' = IF TagAccessed(r, cmd, out.ret.val)
                             THEN [written EXCEPT ![r][epc] = Some(data)]
                             ELSE written
               /\ okOps' = IF TagAccessed(r, cmd, out.ret.val)
                           THEN [okOps EXCEPT ![r][epc] = @ + 1]
                           ELSE okOps
               /\ events' = [events EXCEPT ![d] = @ \o fin.events]
               /\ drv' = DrvCall(d, "write_tag_impinj", cmd, Len(events[d]), fin.ret)
    /\ UNCHANGED <<scan, coreVars>>
WriteTagImpinj(d, epc, data, draw, now) ==
    /\ DriverIdle
    /\ Room(d, 1)
    /\ LET r == ImpinjOf(d)
           cmd == WriteTag(epc, "User", data)
       IN  \E out \in {adapter_send_command(r, cmd, draw, now)} :
             \E fin \in {write_tag_finish(ReaderName(r), epc, data, out.ret)} :
               /\ TagAccessed(r, cmd, out.ret.val) => BelowCap(r, epc)
               /\ sim' = [sim EXCEPT ![r] = out.tags]
               /\ connected' = [connected EXCEPT ![r] = out.connected]
               /\ power_level' = [power_level EXCEPT ![r] = out.power_level]
               /\ last' = Call("send_command", r, cmd, out.ret)
               /\ written' = IF TagAccessed(r, cmd, out.ret.val)
                             THEN [written EXCEPT ![r][epc] = Some(data)]
                             ELSE written
               /\ okOps' = IF TagAccessed(r, cmd, out.ret.val)
                           THEN [okOps EXCEPT ![r][epc] = @ + 1]
                           ELSE okOps
               /\ events' = [events EXCEPT ![d] = @ \o fin.events]
               /\ drv' = DrvCall(d, "write_tag_impinj", cmd, Len(events[d]), fin.ret)
    /\ UNCHANGED <<scan, coreVars>>

\* get_reader_config: GetConfiguration sent to the adapter named by
\* reader_type; any other name is refused before a command is sent.
GetReaderConfig(d, reader_type) ==
    /\ DriverIdle
    /\ IF reader_type \in {"impinj", "zebra"}
       THEN LET r == IF reader_type = "impinj" THEN ImpinjOf(d) ELSE ZebraOf(d)
            IN  \E out \in {adapter_send_command(r, GetConfiguration, 0, 0)} :
                  \E fin \in {get_reader_config_finish(out.ret)} :
                    /\ last' = Call("send_command", r, GetConfiguration, out.ret)
                    /\ drv' = DrvCall(d, "get_reader_config", reader_type,
                                      Len(events[d]), fin.ret)
       ELSE /\ last' = last
            /\ drv' = DrvCall(d, "get_reader_config", reader_type, Len(events[d]),
                              Err(BoxError(<<"Unknown reader type">>)))
    /\ UNCHANGED <<sim, connected, power_level, scan, written, okOps, events, coreVars>>

\* get_events: the channel is drained into the returned list.
GetEvents(d) ==
    /\ DriverIdle
    /\ \E out \in {get_events(events[d])} :
          /\ events' = [events EXCEPT ![d] = out.log]
          /\ drv' = DrvCall(d, "get_events", "none", Len(events[d]), Ok(out.ret))
    /\ UNCHANGED <<sim, connected, power_level, scan, last, written, okOps, coreVars>>

\* print_events: the channel is drained by get_events, the events are printed
\* and nothing is returned. drv.arg keeps the list its get_events call returned,
\* which is what it prints.
PrintEvents(d) ==
    /\ DriverIdle
    /\ \E out \in {get_events(events[d])} :
          /\ events' = [events EXCEPT ![d] = out.log]
          /\ drv' = DrvCall(d, "print_events", out.ret, Len(events[d]), Ok("unit"))
    /\ UNCHANGED <<sim, connected, power_level, scan, last, written, okOps, coreVars>>

\* The locals of a scan_tags call that has just been entered.
ScanEntered(r, duration) ==
    [pc |-> "loop", reader |-> r, duration |-> duration, elapsed |-> 0, found |-> <<>>]

\* perform_inventory_scan up to the first scan: InventoryStarted, then
\* scan_tags on the Impinj adapter's simulator is entered.
PerformInventoryScan(d) ==
    /\ DriverIdle
    /\ Room(d, 4 + Cardinality(DOMAIN sim[ImpinjOf(d)]))
    /\ events' = [events EXCEPT ![d] = log_event(@, InventoryStarted(ImpinjName))]
    /\ scan' = ScanEntered(ImpinjOf(d), InventoryDuration)
    /\ drv' = [DrvCall(d, "perform_inventory_scan", "none", Len(events[d]), Pending)
               EXCEPT !.pc = "scan_impinj"]
    /\ last' = Call("scan_tags", ImpinjOf(d), InventoryDuration, Pending)
    /\ UNCHANGED <<sim, connected, power_level, written, okOps, coreVars>>

\* How long the polls explored for the inventory oversleep.
InventoryJitters == {240, MaxOversleep}

\* The tags a pass of the for loop can still add: visible and not found yet.
\* Every other tag is skipped wherever the iteration meets it.
Candidates(tags, found) == {e \in DOMAIN tags : ScanCandidate(tags[e], found)}

\* The candidates whose error gate can fail: gen::<f32>() < 0.0 never holds.
Gated(tags, found) == {e \in Candidates(tags, found) : tags[e].error_rate > 0}

\* One iteration of the loop of the scan_tags call an inventory is in. The
\* iteration order ranges over the candidates, the tags the pass can act on,
\* and the draws over the gated ones, the tags whose draw matters.
InventoryPoll ==
    /\ drv.pc \in {"scan_impinj", "scan_zebra"}
    /\ scan.pc = "loop"
    /\ ScanContinue(scan.elapsed, scan.duration, scan.found, sim[scan.reader])
    /\ \E order \in Orders(Candidates(sim[scan.reader], scan.found)),
          gate \in [Gated(sim[scan.reader], scan.found) -> Draws],
          jitter \in InventoryJitters :
          LET draws == [e \in Candidates(sim[scan.reader], scan.found) |->
                           IF e \in DOMAIN gate THEN gate[e] ELSE 0]
          IN  scan' = [scan EXCEPT
                         !.found = ScanPass(order, sim[scan.reader], scan.found, draws),
                         !.elapsed = ScanElapsedAfterPoll(scan.elapsed, jitter)]
    /\ last' = [last EXCEPT !.polls = Min(@ + 1, MaxPolls)]
    /\ UNCHANGED <<sim, connected, power_level, written, okOps, events, drv, coreVars>>

\* perform_inventory_scan between the scans: the Impinj scan has returned,
\* InventoryCompleted and InventoryStarted are logged, scan_tags on the Zebra
\* adapter's simulator is entered.
InventoryImpinjScanned ==
    /\ drv.pc = "scan_impinj"
    /\ scan.pc = "loop"
    /\ ~ScanContinue(scan.elapsed, scan.duration, scan.found, sim[scan.reader])
    /\ LET d == drv.driver
           impinj_tags == scan.found
       IN  /\ events' = [events EXCEPT ![d] =
                            log_event(log_event(@, InventoryCompleted(ImpinjName,
                                                                      Len(impinj_tags))),
                                      InventoryStarted(ZebraName))]
           /\ drv' = [drv EXCEPT !.pc = "scan_zebra", !.impinj_tags = impinj_tags]
           /\ scan' = ScanEntered(ZebraOf(d), InventoryDuration)
           /\ last' = Call("scan_tags", ZebraOf(d), InventoryDuration, Pending)
    /\ UNCHANGED <<sim, connected, power_level, written, okOps, coreVars>>

\* perform_inventory_scan after the scans: the Zebra scan has returned,
\* InventoryCompleted and the TagDetected events are logged, the identifiers
\* are returned.
InventoryZebraScanned_CountsImpinj ==
    /\ drv.pc = "scan_zebra"
    /\ scan.pc = "loop"
    /\ ~ScanContinue(scan.elapsed, scan.duration, scan.found, sim[scan.reader])
    /\ LET d == drv.driver
           zebra_tags == scan.found
       IN  /\ events' = [events EXCEPT ![d] =
                            log_event(@, InventoryCompleted(ZebraName, Len(drv.impinj_tags)))
                            \o TagDetectedEvents(drv.impinj_tags)]
           /\ drv' = [drv EXCEPT !.pc = "idle", !.zebra_tags = zebra_tags,
                                 !.ret = Ok(InventoryResult(drv.impinj_tags, zebra_tags))]
           /\ scan' = ScanIdle
           /\ last' = [last EXCEPT !.ret = Ok(zebra_tags)]
    /\ UNCHANGED <<sim, connected, power_level, written, okOps, coreVars>>
InventoryZebraScanned ==
    /\ drv.pc = "scan_zebra"
    /\ scan.pc = "loop"
    /\ ~ScanContinue(scan.elapsed, scan.duration, scan.found, sim[scan.reader])
    /\ LET d == drv.driver
           zebra_tags == scan.found
       IN  /\ events' = [events EXCEPT ![d] =
                            log_event(@, InventoryCompleted(ZebraName, Len(zebra_tags)))
                            \o TagDetectedEvents(drv.impinj_tags)]
           /\ drv' = [drv EXCEPT !.pc = "idle", !.zebra_tags = zebra_tags,
                                 !.ret = Ok(InventoryResult(drv.impinj_tags, zebra_tags))]
           /\ scan' = ScanIdle
           /\ last' = [last EXCEPT !.ret = Ok(zebra_tags)]
    /\ UNCHANGED <<sim, connected, power_level, written, okOps, coreVars>>

\* A tag code inside the driver's module registers with the Zebra adapter's
\* simulator only.
ZebraOnlyTag == SimulatedTag_new("EPC-1", "TAG", <<1, 2, 3>>)

\* The caller has received every event logged so far.
Drained(d) == events[d] = <<>>

\* One driver, every operation; an operation is entered on a drained log.
NextDriver ==
    \/ Drained("A") /\ InitializeAll("A")
    \/ Drained("A") /\ SetupDemoTags("A")
    \/ \E r \in Readers, epc \in DriverEpcs : Drained("A") /\ ReadTagBegin("A", r, epc)
    \/ \E draw \in Draws, now \in Times : ReadTagSend(draw, now)
    \/ \E epc \in DriverEpcs, data \in DriverPayloads, draw \in Draws, now \in Times :
          Drained("A") /\ WriteTagImpinj("A", epc, data, draw, now)
    \/ \E reader_type \in ReaderTypes : Drained("A") /\ GetReaderConfig("A", reader_type)
    \/ GetEvents("A")
    \/ PrintEvents("A")
    \/ DriverIdle /\ SimAddTag(Zebra, ZebraOnlyTag)
    \/ Drained("A") /\ PerformInventoryScan("A")
    \/ InventoryPoll
    \/ InventoryImpinjScanned
    \/ InventoryZebraScanned

SpecDriver == Init /\ [][NextDriver]_vars

\* The driver call `op` has returned Ok.
Returned_ok(op) == drv.pc = "idle" /\ drv.op = op /\ drv.ret.ok

\* demonstrate_architecture on driver d, one step of it: initialize_all,
\* setup_demo_tags, get_reader_config of both vendors, perform_inventory_scan,
\* read_tag_impinj of the first identifier found when there is one, then
\* print_events. Each `?` returns the callee's error, which ends the call;
\* the error of the read is printed and dropped. The place in the body is
\* told by the call that returned last.
DemonstrateArchitecture(d) ==
    \/ drv.op = "new" /\ InitializeAll(d)
    \/ Returned_ok("initialize_all") /\ SetupDemoTags(d)
    \/ Returned_ok("setup_demo_tags") /\ GetReaderConfig(d, "impinj")
    \/ /\ Returned_ok("get_reader_config")
       /\ drv.arg = "impinj"
       /\ GetReaderConfig(d, "zebra")
    \/ /\ Returned_ok("get_reader_config")
       /\ drv.arg = "zebra"
       /\ PerformInventoryScan(d)
    \/ InventoryPoll
    \/ InventoryImpinjScanned
    \/ InventoryZebraScanned
    \/ /\ Returned_ok("perform_inventory_scan")
       /\ IF drv.ret.val # <<>>
          THEN ReadTagBegin(d, ImpinjOf(d), drv.ret.val[1])
          ELSE PrintEvents(d)
    \/ \E draw \in Draws, now \in Times : ReadTagSend(draw, now)
    \/ drv.pc = "idle" /\ drv.op = "read_tag_impinj" /\ PrintEvents(d)

NextDemo == DemonstrateArchitecture("A")

SpecDemo == Init /\ [][NextDemo]_vars

\* Replacement of the simulators under one driver: initialize_all connects
\* its adapters, their simulators are replaced one at a time by with_simulator
\* and both at once by setup_demo_tags, and tags are read and written through
\* the adapters and read through the driver. Initialize is sent by
\* initialize_all only. A driver operation is entered on a drained log, and
\* every access is made at one time.
ConnectionEpcs == {"EPC-1", DemoEpc(DemoFaultyTag)}
ConnectionCommands ==
    {StartInventory, StopInventory, GetConfiguration, GetStatus}
    \cup {ReadTag(e, "User") : e \in ConnectionEpcs}
    \cup {WriteTag(e, "User", <<7, 8, 9>>) : e \in ConnectionEpcs}

NextConnection ==
    \/ Drained("A") /\ InitializeAll("A")
    \/ Drained("A") /\ SetupDemoTags("A")
    \/ \E r \in Readers, simulator \in SeedSimulators :
          DriverIdle /\ WithSimulator(r, simulator)
    \/ \E r \in Readers, cmd \in ConnectionCommands, draw \in Draws :
          DriverIdle /\ SendCommand(r, cmd, draw, MaxTime)
    \/ \E r \in Readers : Drained("A") /\ ReadTagBegin("A", r, DemoEpc(DemoFaultyTag))
    \/ \E draw \in Draws : ReadTagSend(draw, MaxTime)
    \/ GetEvents("A")

SpecConnection == Init /\ [][NextConnection]_vars

\* Two drivers side by side: initialization, reads and draining of the log.
NextDrivers ==
    \/ \E d \in Drivers : InitializeAll(d)
    \/ \E d \in Drivers : ReadTagBegin(d, ImpinjOf(d), "EPC-DEMO-009")
    \/ \E draw \in Draws, now \in Times : ReadTagSend(draw, now)
    \/ \E d \in Drivers : GetEvents(d)
    \/ \E d \in Drivers : PrintEvents(d)

SpecDrivers == Init /\ [][NextDrivers]_vars

\* ------------------------------------------------------------------------
\* One simulator driven directly
\* ------------------------------------------------------------------------
InitSim == Init

NextSim ==
    \/ \E tag \in BuiltTags : SimAddTag(Impinj, tag)
    \/ \E epc \in Epcs : SimRemoveTag(Impinj, epc)
    \/ \E epc \in Epcs, draw \in Draws, now \in Times : SimReadTag(Impinj, epc, draw, now)
    \/ \E epc \in Epcs, data \in Payloads, draw \in Draws, now \in Times :
          SimWriteTag(Impinj, epc, data, draw, now)
    \/ \E duration \in Durations : ScanStart(Impinj, duration)
    \/ ScanPoll
    \/ ScanReturn

SpecSim == InitSim /\ [][NextSim]_vars

\* The poll loop is sequential code: a started scan keeps running.
SpecSimFair == SpecSim /\ WF_vars(ScanPoll) /\ WF_vars(ScanReturn)

\* One simulator whose tags are written several times: the tags are seeded
\* with one payload and an error gate that can fire either way.
RewrittenTags ==
    { with_error_rate(SimulatedTag_new(e, "TAG", <<1, 2, 3>>), 50) : e \in Epcs }
ScanDurations == {5}

NextWrites ==
    \/ \E tag \in RewrittenTags : SimAddTag(Impinj, tag)
    \/ \E epc \in Epcs : SimRemoveTag(Impinj, epc)
    \/ \E epc \in Epcs, draw \in Draws, now \in Times :
          SimReadTagUpTo(Impinj, epc, draw, now, MaxSimAccesses)
    \/ \E epc \in Epcs, data \in Payloads, draw \in Draws, now \in Times :
          SimWriteTagUpTo(Impinj, epc, data, draw, now, MaxSimAccesses, MaxKept)
    \/ \E duration \in ScanDurations : ScanStart(Impinj, duration)
    \/ ScanPoll
    \/ ScanReturn

SpecWrites == InitSim /\ [][NextWrites]_vars

\* Registration, removal and scans only (no addressed reads or writes).
NextScan ==
    \/ \E tag \in BuiltTags : SimAddTag(Impinj, tag)
    \/ \E epc \in Epcs : SimRemoveTag(Impinj, epc)
    \/ \E duration \in Durations : ScanStart(Impinj, duration)
    \/ ScanPoll
    \/ ScanReturn

\* The poll loop is sequential code: a started scan keeps running.
SpecScan == InitSim /\ [][NextScan]_vars /\ WF_vars(ScanPoll) /\ WF_vars(ScanReturn)

\* ------------------------------------------------------------------------
\* IntegrityValidator
\* ------------------------------------------------------------------------
\* validate(&sample): the clock is read up to three times, never backwards.
Validate(now1, now2, now3) ==
    /\ now1 <= now2 /\ now2 <= now3
    /\ validation' = [now |-> <<now1, now2, now3>>, ret |-> validate(sample, now1, now2, now3)]
    /\ UNCHANGED <<sim, connected, power_level, scan, last, written, okOps, events, drv, sample>>
    /\ UNCHANGED <<codec, stored, wrote, clock, guard>>

InitValidator ==
    /\ InitHardware
    /\ sample \in Samples
    /\ validation = NotValidated
    /\ InitCore

NextValidator == \E now1, now2, now3 \in ClockInputs : Validate(now1, now2, now3)

SpecValidator == InitValidator /\ [][NextValidator]_vars

\* ------------------------------------------------------------------------
\* RFIDEncryption and RFIDTag
\* ------------------------------------------------------------------------
MaxBlocks == 2
MaxTagReads == 2

MasterKeys == {DefaultMasterKey, <<"test_key_32_bytes_long_for_aes256!!">>}
Ivs == {[j \in 1..IvLen |-> Byte(0)], [j \in 1..IvLen |-> Byte(j)]}
TagIds == {"TAG001"}
TagTimestamps == {258}

\* Plaintexts around the block boundaries, of distinct bytes and of bytes that
\* look like a padding.
PlaintextLengths ==
    {n \in 0..(MaxBlocks * BlockSize) : n % BlockSize \in {0, 1, BlockSize - 1}}
Plaintexts ==
    {[j \in 1..n |-> Byte(j)] : n \in PlaintextLengths}
        \cup {[j \in 1..n |-> Byte(1)] : n \in PlaintextLengths}

\* The bytes of a ciphertext that get changed: the second of the IV, the
\* last of the first block, the first and the last of the second block.
CorruptedAt == {2, IvLen + BlockSize, IvLen + BlockSize + 1, IvLen + 2 * BlockSize}

\* What can happen to a tag's memory after it was encoded (the fields of
\* TagMemoryLayout are public, and so is what a reader hands back): a bit of
\* the payload is flipped, in the IV, in the first or in the last block of
\* the ciphertext; the payload is cut or extended; the digest is replaced;
\* or a bit is flipped and the digest recomputed over the changed payload.
FlipMask == 1
Tamperings == {"flip_iv", "flip_first", "flip_last", "truncate", "extend", "digest",
               "rehash_iv", "rehash_first", "rehash_last"}
tamper(tag, how) ==
    LET payload == tag.memory_layout.payload
        flip(at) == [payload EXCEPT ![at] = Masked(@, FlipMask)]
        changed == CASE how \in {"flip_iv", "rehash_iv"} -> flip(1)
                     [] how \in {"flip_first", "rehash_first"} -> flip(IvLen + 1)
                     [] how \in {"flip_last", "rehash_last"} -> flip(Len(payload))
                     [] how = "truncate" -> SubSeq(payload, 1, IvLen)
                     [] how = "extend" -> payload \o <<Byte(0)>>
                     [] OTHER -> payload
    IN  [tag EXCEPT !.memory_layout.payload = changed,
                    !.memory_layout.integrity_hash =
                        CASE how = "digest" -> hash(<<>>)
                          [] how \in {"rehash_iv", "rehash_first", "rehash_last"} ->
                                hash(changed)
                          [] OTHER -> @]

\* The same tag as a writer of another version serialises it: the fields in
\* another order and a field more.
OtherWriter ==
    Struct(<<Field("version", U64),
             Field("encryption_enabled", Bool),
             Field("memory_layout", TagMemoryLayout),
             Field("tag_id", StringT)>>)
rewritten(tag) ==
    LET json == serialize(OtherWriter, [version |-> 2,
                                        encryption_enabled |-> tag.encryption_enabled,
                                        memory_layout |-> tag.memory_layout,
                                        tag_id |-> tag.tag_id])
    IN  to_be_bytes(Len(json), PrefixLen) \o json

CodecFrame == UNCHANGED <<hardwareVars, sample, validation, stored, wrote, clock, guard>>

\* encrypt(&plaintext); each behaviour follows one plaintext or one tag.
Encrypt(master_key, plaintext, iv) ==
    /\ codec.op = "none"
    /\ \E out \in {encrypt(RFIDEncryption_new(master_key), plaintext, iv)} :
        codec' = [NoCodec EXCEPT !.op = "encrypt",
                                 !.key = master_key,
                                 !.plaintext = plaintext,
                                 !.bytes = IF out.ok THEN Some(out.val) ELSE None,
                                 !.ret = out]
    /\ CodecFrame

\* A bit of the ciphertext is flipped on its way.
Corrupt(at) ==
    /\ codec.op = "encrypt" /\ codec.bytes # None
    /\ at \in DOMAIN codec.bytes[1]
    /\ codec' = [codec EXCEPT !.op = "corrupt",
                              !.bytes = Some([codec.bytes[1] EXCEPT
                                                ![at] = Masked(@, FlipMask)]),
                              !.intact = FALSE,
                              !.ret = Ok("unit")]
    /\ CodecFrame

\* decrypt(&ciphertext) of what encrypt returned, or of what became of it,
\* by an RFIDEncryption made from master_key.
Decrypt(master_key, chance) ==
    /\ codec.op \in {"encrypt", "corrupt"} /\ codec.bytes # None
    /\ codec' = [codec EXCEPT !.op = "decrypt",
                              !.with = master_key,
                              !.ret = decrypt(RFIDEncryption_new(master_key),
                                              codec.bytes[1], chance)]
    /\ CodecFrame

\* RFIDTag::new(tag_id, payload, &encryption)
TagNew(tag_id, master_key, payload, iv, timestamp) ==
    /\ codec.op = "none"
    /\ \E out \in {RFIDTag_new(tag_id, payload, RFIDEncryption_new(master_key), iv, timestamp)} :
        codec' = [NoCodec EXCEPT !.op = "new",
                                 !.key = master_key,
                                 !.plaintext = payload,
                                 !.tag = IF out.ok THEN Some(out.val) ELSE None,
                                 !.encoded = IF out.ok THEN Some(out.val) ELSE None,
                                 !.ret = out]
    /\ CodecFrame

\* The tag's memory is changed behind the program's back.
TagTamper(how) ==
    /\ codec.op = "new" /\ codec.tag # None
    /\ codec' = [codec EXCEPT !.op = "tamper",
                              !.tag = Some(tamper(codec.tag[1], how)),
                              !.ret = Ok("unit")]
    /\ CodecFrame

\* tag.increment_read_count(); the exploration stops counting at
\* MaxTagReads.
TagIncrementReadCount ==
    /\ codec.op \in {"new", "increment_read_count"} /\ codec.tag # None
    /\ from_be_bytes(SubSeq(codec.tag[1].memory_layout.metadata, TimestampLen + 1,
                            MetadataLen)) < MaxTagReads
    /\ codec' = [codec EXCEPT !.op = "increment_read_count",
                              !.tag = Some(RFIDTag_increment_read_count(codec.tag[1])),
                              !.ret = Ok("unit")]
    /\ CodecFrame

\* tag.decrypt_payload(&encryption)
TagDecryptPayload(master_key, chance) ==
    /\ codec.op \in {"new", "tamper", "increment_read_count"} /\ codec.tag # None
    /\ codec' = [codec EXCEPT !.op = "decrypt_payload",
                              !.with = master_key,
                              !.ret = decrypt_payload(codec.tag[1],
                                                      RFIDEncryption_new(master_key),
                                                      chance)]
    /\ CodecFrame

\* tag.to_bytes()
TagToBytes ==
    /\ codec.op \in {"new", "tamper", "increment_read_count"} /\ codec.tag # None
    /\ \E out \in {to_bytes(codec.tag[1])} :
        codec' = [codec EXCEPT !.op = "to_bytes",
                               !.bytes = IF out.ok THEN Some(out.val) ELSE None,
                               !.cut = FALSE,
                               !.ret = out]
    /\ CodecFrame

\* Only the first n bytes of the buffer arrive; the exploration cuts the
\* buffers of the tags that are as encoded.
TagTruncate(n) ==
    /\ codec.op = "to_bytes" /\ codec.bytes # None
    /\ codec.tag = codec.encoded
    /\ n < Len(codec.bytes[1])
    /\ codec' = [codec EXCEPT !.op = "truncate",
                              !.bytes = Some(SubSeq(codec.bytes[1], 1, n)),
                              !.cut = TRUE,
                              !.ret = Ok("unit")]
    /\ CodecFrame

\* The buffer arrives as another writer serialises the tag.
TagRewrite ==
    /\ codec.op = "to_bytes" /\ codec.bytes # None
    /\ codec' = [codec EXCEPT !.op = "rewrite",
                              !.bytes = Some(rewritten(codec.tag[1])),
                              !.ret = Ok("unit")]
    /\ CodecFrame

\* RFIDTag::from_bytes(&data)
TagFromBytes ==
    /\ codec.op \in {"to_bytes", "truncate", "rewrite"} /\ codec.bytes # None
    /\ codec' = [codec EXCEPT !.op = "from_bytes", !.ret = from_bytes(codec.bytes[1])]
    /\ CodecFrame

\* The longest buffer to_bytes returns in the exploration.
MaxWire == PrefixLen + 30 + HeaderLen + MetadataLen + HashLen + IvLen + (MaxBlocks + 1) * BlockSize

NextCodec ==
    \/ \E k \in MasterKeys, p \in Plaintexts, iv \in Ivs : Encrypt(k, p, iv)
    \/ \E at \in CorruptedAt : Corrupt(at)
    \/ \E k \in MasterKeys, chance \in Chances : Decrypt(k, chance)
    \/ \E id \in TagIds, k \in MasterKeys, p \in Plaintexts, ts \in TagTimestamps :
            TagNew(id, k, p, [j \in 1..IvLen |-> Byte(j)], ts)
    \/ \E how \in Tamperings : TagTamper(how)
    \/ TagIncrementReadCount
    \/ \E k \in MasterKeys, chance \in Chances : TagDecryptPayload(k, chance)
    \/ TagToBytes
    \/ \E n \in 0..MaxWire : TagTruncate(n)
    \/ TagRewrite
    \/ TagFromBytes

SpecCodec == Init /\ [][NextCodec]_vars

\* ------------------------------------------------------------------------
\* Sample and SampleGuard over a MockRFIDReader
\* ------------------------------------------------------------------------
MaxClock == 1
MaxWrites == 2
MaxIncrements == 2

Instants == 0..MaxClock
NewStatuses == {"InTransit", "Compromised"}
Locations == {"Lab"}

\* The samples the caller creates at instant 0: without expiry date, expiring
\* at once, expiring late, and with an inverted temperature range.
NewMetadata ==
    {TestMetadata("BATCH001", ex, Some(<<2, 8>>)) :
        ex \in {None, Some(0), Some(MaxClock + 200)}}
    \cup {TestMetadata("BATCH001", None, Some(<<8, 2>>))}
NewSamples == {Sample_new(TestUuid, "SAMPLE001", metadata, None, 0) : metadata \in NewMetadata}

\* The byte of the IV that meets the sample's id in the first block of the
\* serialized sample.
IdAt == 3

GuardCall(op, arg, now, ret) == [op |-> op, arg |-> arg, now |-> now, ret |-> ret]

\* What the reader can hand back instead of what was written to it.
TagFaults == {"removed", "short", "cut", "bad_json", "tampered", "short_payload",
              "rehashed", "rehashed_id", "rewritten", "status_map", "not_a_sample"}

\* The serialized sample with its status written as the object
\* {"Variant": null}, as another serde writer may write a unit variant.
status_as_map(toks) ==
    LET at == (CHOOSE j \in DOMAIN toks : toks[j] = Key("status")) + 1
    IN  SubSeq(toks, 1, at - 1)
            \o <<Punct("{"), Key(toks[at][2]), Punct("null"), Punct("}")>>
            \o SubSeq(toks, at + 1, Len(toks))

faulty(bytes, tag, how) ==
    LET reencoded(t) == Some(to_bytes(t).val)
    IN  CASE how = "removed" -> None
          [] how = "short" -> Some(SubSeq(bytes, 1, PrefixLen - 1))
          [] how = "cut" -> Some(SubSeq(bytes, 1, Len(bytes) - 1))
          [] how = "bad_json" ->
                Some(to_be_bytes(Len(bytes) - PrefixLen - 1, PrefixLen)
                        \o SubSeq(bytes, PrefixLen + 1, Len(bytes) - 1))
          [] how = "tampered" -> reencoded(tamper(tag, "flip_last"))
          [] how = "short_payload" ->
                reencoded([tag EXCEPT
                    !.memory_layout.payload = SubSeq(@, 1, IvLen),
                    !.memory_layout.integrity_hash =
                        hash(SubSeq(tag.memory_layout.payload, 1, IvLen))])
          [] how = "rehashed" -> reencoded(tamper(tag, "rehash_last"))
          [] how = "rehashed_id" ->
                reencoded([tag EXCEPT
                    !.memory_layout.payload = [@ EXCEPT ![IdAt] = Masked(@, FlipMask)],
                    !.memory_layout.integrity_hash =
                        hash([tag.memory_layout.payload EXCEPT
                                ![IdAt] = Masked(@, FlipMask)])])
          [] how = "rewritten" -> Some(rewritten(tag))
          [] how = "status_map" ->
                reencoded(RFIDTag_new(
                    tag.tag_id,
                    status_as_map(decrypt_payload(tag, RFIDEncryption_new(DefaultMasterKey),
                                                  NoChance).val),
                    RFIDEncryption_new(DefaultMasterKey),
                    [j \in 1..IvLen |-> Byte(j)], 0).val)
          [] how = "not_a_sample" ->
                reencoded(RFIDTag_new(tag.tag_id, <<Byte(97), Byte(98), Byte(99)>>,
                                      RFIDEncryption_new(DefaultMasterKey),
                                      [j \in 1..IvLen |-> Byte(j)], 0).val)

GuardFrame == UNCHANGED <<hardwareVars, validation, codec>>

\* sample.update_status(new_status)
UpdateStatus(new_status, now) ==
    /\ clock <= now
    /\ sample' = update_status(sample, new_status, now)
    /\ clock' = now
    /\ guard' = GuardCall("update_status", None, <<now>>, Ok("unit"))
    /\ UNCHANGED <<stored, wrote>>
    /\ GuardFrame

\* sample.update_location(location)
UpdateLocation(location, now) ==
    /\ clock <= now
    /\ sample' = update_location(sample, location, now)
    /\ clock' = now
    /\ guard' = GuardCall("update_location", None, <<now>>, Ok("unit"))
    /\ UNCHANGED <<stored, wrote>>
    /\ GuardFrame

\* sample.increment_read_count(); the exploration stops counting at
\* MaxIncrements.
IncrementReadCount(now) ==
    /\ clock <= now
    /\ sample.read_count < MaxIncrements
    /\ sample' = increment_read_count(sample, now)
    /\ clock' = now
    /\ guard' = GuardCall("increment_read_count", None, <<now>>, Ok("unit"))
    /\ UNCHANGED <<stored, wrote>>
    /\ GuardFrame

\* guard.write_sample(&sample); the exploration stops after MaxWrites calls.
WriteSample(iv, now) ==
    /\ clock <= now
    /\ wrote.count < MaxWrites
    /\ \E out \in {write_sample(stored, sample, iv, now)} :
        /\ stored' = out.stored_data
        /\ wrote' = [sample |-> IF out.ret.ok THEN Some(sample) ELSE wrote.sample,
                     count |-> wrote.count + 1]
        /\ guard' = GuardCall("write_sample", Some(sample), <<now>>, out.ret)
    /\ clock' = now
    /\ UNCHANGED sample
    /\ GuardFrame

\* guard.read_sample(); the call is recorded with the clock readings and with
\* what the bytes the model does not compute turned out to be, where that
\* made a difference. The three readings validate takes fall into one instant
\* of this clock; SpecValidator has the readings that differ.
Decodings(tag, chances) ==
    {<<chance, read_sample_decode(tag, chance)>> : chance \in chances}
Chosen(decodings, s) ==
    IF <<NoChance, s>> \in decodings THEN NoChance
    ELSE (CHOOSE d \in decodings : d[2] = s)[1]
ReadSample ==
    /\ \E tag \in {read_sample_parse(Mock_read_tag(stored))} :
       \E decodings \in {Decodings(tag, IF tag.ok /\ ~AsEncrypted(
                                                RFIDEncryption_new(DefaultMasterKey),
                                                tag.val.memory_layout.payload)
                                        THEN Chances ELSE {NoChance})} :
       \E s \in {d[2] : d \in decodings} :
       \E now \in Instants :
            /\ clock <= now
            /\ guard' = GuardCall("read_sample", Some(Chosen(decodings, s)),
                                  <<now, now, now>>, read_sample_finish(s, now, now, now))
            /\ clock' = now
    /\ UNCHANGED <<sample, stored, wrote>>
    /\ GuardFrame

\* guard.check_integrity(&returned), on the sample read_sample just returned.
CheckIntegrity(now) ==
    /\ guard.op = "read_sample" /\ guard.ret.ok
    /\ clock <= now
    /\ guard' = GuardCall("check_integrity", Some(guard.ret.val), <<now, now, now>>,
                          check_integrity(guard.ret.val, now, now, now))
    /\ clock' = now
    /\ UNCHANGED <<sample, stored, wrote>>
    /\ GuardFrame

\* The first tag written leaves the field, or comes back damaged or replaced.
TagFault ==
    /\ guard.op = "write_sample" /\ stored # None /\ wrote.count = 1
    /\ \E tag \in {from_bytes(stored[1]).val} :
       \E how \in TagFaults : stored' = faulty(stored[1], tag, how)
    /\ wrote' = [wrote EXCEPT !.sample = None]
    /\ guard' = GuardCall("fault", None, <<>>, Ok("unit"))
    /\ UNCHANGED <<sample, clock>>
    /\ GuardFrame

InitGuard ==
    /\ InitHardware
    /\ sample \in NewSamples
    /\ validation = NotValidated
    /\ InitCore

\* A fault is the last thing that happens to the tag: after it the caller
\* reads what the reader hands back.
Damaged == wrote.count > 0 /\ wrote.sample = None

NextGuard ==
    \/ ~Damaged /\ \E st \in NewStatuses, now \in Instants : UpdateStatus(st, now)
    \/ ~Damaged /\ \E loc \in Locations, now \in Instants : UpdateLocation(loc, now)
    \/ ~Damaged /\ \E now \in Instants : WriteSample([j \in 1..IvLen |-> Byte(j)], now)
    \/ ReadSample
    \/ \E now \in Instants : CheckIntegrity(now)
    \/ TagFault

SpecGuard == InitGuard /\ [][NextGuard]_vars

\* The Sample alone, under its own mutators.
NextSample ==
    \/ \E st \in NewStatuses, now \in Instants : UpdateStatus(st, now)
    \/ \E loc \in Locations, now \in Instants : UpdateLocation(loc, now)
    \/ \E now \in Instants : IncrementReadCount(now)

SpecSample == InitGuard /\ [][NextSample]_vars

\* ------------------------------------------------------------------------
\* Properties of the simulator
\* ------------------------------------------------------------------------
Registered(r, e) == e \in DOMAIN sim[r]

ReadReturned == last.op = "read_tag" /\ last.ret.ok

\* The payload a history of payloads ends with.
Latest(payloads) == IF payloads = <<>> THEN None ELSE Some(payloads[Len(payloads)])
AccessFailed == last.op \in {"read_tag", "write_tag"} /\ ~last.ret.ok
ScanReturned == last.op = "scan_tags" /\ last.ret.ok

\* C3: a successful read_tag(id) returns the bytes of the most recent successful
\* write_tag(id, _), or the bytes id was seeded with by add_tag when no write to
\* id has succeeded since; nothing else moves what a read returns.
C3_ReadReturnsLatestWrite ==
    ReadReturned => Latest(written[last.reader][last.arg]) = Some(last.ret.val)

\* A tag whose gate can fire was seeded, written, and written again with
\* another payload; a read then returned the payload of the second write,
\* which is neither the first write's nor the seed's, while another tag is
\* registered with the seed's payload.
C3_Witness ==
    /\ ReadReturned
    /\ okOps[last.reader][last.arg] = 3
    /\ sim[last.reader][last.arg].error_rate = 50
    /\ written[last.reader][last.arg] = <<<<1, 2, 3>>, <<1, 2, 3>>, <<7, 8, 9>>>>
    /\ last.ret.val = <<7, 8, 9>>
    /\ \E e \in Epcs \ {last.arg} : Registered(last.reader, e) /\ sim[last.reader][e].data = <<1, 2, 3>>

\* C4: a read_tag or write_tag call that fails leaves the whole registry as it
\* was: same identifiers, same payloads, counters and timestamps.
C4_FailedAccessLeavesRegistry ==
    [][(last'.op \in {"read_tag", "write_tag"} /\ ~last'.ret.ok) => sim' = sim]_vars

\* The gate of a registered, already accessed tag fired.
C4_Witness ==
    /\ AccessFailed
    /\ Registered(last.reader, last.arg)
    /\ sim[last.reader][last.arg].read_count >= 1
    /\ last.ret.err.msg \in {<<"Tag read error (simulated)">>, <<"Tag write error (simulated)">>}

\* C5: for a registered tag with error rate 1.0 every read_tag and write_tag
\* fails with a ReaderError; with error rate 0.0 none fails.
C5_ErrorGate ==
    (last.op \in {"read_tag", "write_tag"} /\ Registered(last.reader, last.arg)) =>
        LET tag == sim[last.reader][last.arg]
        IN  /\ tag.error_rate = 100 => (~last.ret.ok /\ last.ret.err.kind = "ReaderError")
            /\ tag.error_rate = 0 => last.ret.ok

\* A write to a rate-1.0 tag failed after another tag had been accessed.
C5_Witness ==
    /\ last.op = "write_tag"
    /\ Registered(last.reader, last.arg)
    /\ sim[last.reader][last.arg].error_rate = 100
    /\ ~last.ret.ok
    /\ \E e \in Epcs \ {last.arg} :
          Registered(last.reader, e) /\ sim[last.reader][e].error_rate = 0
                                    /\ sim[last.reader][e].read_count >= 1

\* C6: the read counter of a registered tag equals the number of successful
\* read_tag and write_tag calls addressed to it since it was added.
C6_CounterCountsSuccesses ==
    \A r \in Readers : \A e \in DOMAIN sim[r] : sim[r][e].read_count = okOps[r][e]

\* A failed access to a tag that had been accessed successfully twice.
C6_Witness ==
    /\ AccessFailed
    /\ Registered(last.reader, last.arg)
    /\ okOps[last.reader][last.arg] = 2

\* C7: scan_tags is passive: no step of a scan changes any tag or the set of
\* registered identifiers.
C7_ScanPassive ==
    [][(scan.pc = "loop" \/ scan'.pc = "loop") => sim' = sim]_vars

\* A scan returned a tag that has a non-zero read counter.
C7_Witness ==
    /\ ScanReturned
    /\ \E i \in 1..Len(last.ret.val) :
          /\ last.ret.val[i].read_count >= 1
          /\ sim[last.reader][last.ret.val[i].epc] = last.ret.val[i]

FoundEpcs(found) == {found[i].epc : i \in 1..Len(found)}

AllObservable(tags) ==
    \A e \in DOMAIN tags : tags[e].rssi > VisibilityFloor /\ tags[e].error_rate = 0

\* C8: scan_tags returns no identifier twice and only registered tags above the
\* visibility floor; with every registered tag visible and gate-free and a
\* duration that admits one poll, it returns exactly the registered identifiers.
C8_ScanDedup ==
    ScanReturned =>
        LET found == last.ret.val
            tags == sim[last.reader]
        IN  /\ \A i, j \in 1..Len(found) : i # j => found[i].epc # found[j].epc
            /\ \A i \in 1..Len(found) :
                  /\ found[i].epc \in DOMAIN tags
                  /\ tags[found[i].epc].rssi > VisibilityFloor
            /\ (AllObservable(tags) /\ last.arg > 0) =>
                  (FoundEpcs(found) = DOMAIN tags /\ Len(found) = Cardinality(DOMAIN tags))

\* A scan over two observable tags returned both.
C8_Witness ==
    /\ ScanReturned
    /\ AllObservable(sim[last.reader])
    /\ Len(last.ret.val) = 2
    /\ last.polls = 1

Unobservable(tag) == tag.rssi <= VisibilityFloor \/ tag.error_rate = 100

\* C9: scan_tags terminates.  A poll is entered only while the duration has not
\* elapsed and some registered tag is still unobserved; a scan of an empty
\* registry or with a zero duration returns the empty set without polling; and
\* every started scan returns.
C9_ScanTerminates ==
    /\ [][(scan.pc = "loop" /\ scan'.pc = "loop") =>
            (scan.elapsed < scan.duration
             /\ Len(scan.found) < Cardinality(DOMAIN sim[scan.reader]))]_vars
    /\ [](ScanReturned =>
            ((sim[last.reader] = TagSimulator_new \/ last.arg = 0)
                => (last.polls = 0 /\ last.ret.val = <<>>)))
    /\ (scan.pc = "loop") ~> (scan.pc = "idle")

\* A scan over a registry with a tag that can never be observed returned after
\* the duration ran out.
C9_Witness ==
    /\ ScanReturned
    /\ \E e \in DOMAIN sim[last.reader] : Unobservable(sim[last.reader][e])
    /\ last.arg = MaxDuration
    /\ last.polls >= 3
    /\ Len(last.ret.val) < Cardinality(DOMAIN sim[last.reader])

\* ------------------------------------------------------------------------
\* Properties of the vendor adapters
\* ------------------------------------------------------------------------
GatedCommandTypes ==
    {"StartInventory", "StopInventory", "ReadTag", "WriteTag", "GetConfiguration",
     "SetConfiguration"}

NotConnectedResponse == ProtocolResponse_error(<<"Reader not connected">>)

Sent == last.op = "send_command"

\* C1: while an adapter is not connected, StartInventory, StopInventory, ReadTag,
\* WriteTag, GetConfiguration and SetConfiguration are answered with
\* success = false and "Reader not connected", and change neither the power
\* level nor any tag of the adapter's simulator.
C1_GateRejectsAndPreserves ==
    [][(/\ last'.op = "send_command"
        /\ ~connected[last'.reader]
        /\ last'.arg.type \in GatedCommandTypes)
       => (/\ last'.ret.ok
           /\ last'.ret.val = NotConnectedResponse
           /\ sim' = sim
           /\ power_level' = power_level
           /\ connected' = connected)]_vars

\* SetConfiguration and WriteTag were rejected by an adapter that was never
\* initialized and holds a tag the write was addressed to.
C1_Witness ==
    /\ Sent
    /\ ~connected[last.reader]
    /\ last.arg.type = "WriteTag"
    /\ Registered(last.reader, last.arg.epc)
    /\ last.arg.data # sim[last.reader][last.arg.epc].data
    /\ last.ret.val = NotConnectedResponse

\* C2: GetStatus is exempt from the connection gate: sent to an adapter that is
\* not connected it is answered with a success response.
C2_GetStatusExempt ==
    (Sent /\ last.arg.type = "GetStatus" /\ ~connected[last.reader])
        => last.ret.val.success

\* What the adapters do: GetStatus sent to an adapter that is not connected is
\* rejected like every command other than Initialize.
C2_GetStatusGated ==
    (Sent /\ last.arg.type = "GetStatus" /\ ~connected[last.reader])
        => last.ret.val = NotConnectedResponse

C2_Witness == Sent /\ last.arg.type = "GetStatus" /\ ~connected[last.reader]

\* C10: every response of send_command has exactly one of data and error: data
\* and no error when success is true, error and no data when it is false.
C10_ExactlyOneOfDataError ==
    Sent =>
        LET resp == last.ret.val
        IN  /\ last.ret.ok
            /\ resp.success => (resp.data # None /\ resp.error = None)
            /\ ~resp.success => (resp.error # None /\ resp.data = None)

\* A connected adapter answered a ReadTag with the simulator's failure.
C10_Witness ==
    /\ Sent
    /\ connected[last.reader]
    /\ last.arg.type = "ReadTag"
    /\ ~last.ret.val.success
    /\ Len(last.ret.val.error) = 1

\* ------------------------------------------------------------------------
\* Adapters: error translation and response framing
\* ------------------------------------------------------------------------
\* The message of the simulator's failure for a tag access on registry `tags`:
\* an absent tag, or else the simulated fault of the operation.
SimulatorMessage(tags, cmd) ==
    IF cmd.epc \notin DOMAIN tags
    THEN <<"Tag ", cmd.epc, " not found">>
    ELSE IF cmd.type = "ReadTag"
    THEN <<"Tag read error (simulated)">>
    ELSE <<"Tag write error (simulated)">>

\* `msg` occurs in `text` as a contiguous run of pieces.
Contains(text, msg) ==
    \E i \in 0..(Len(text) - Len(msg)) : SubSeq(text, i + 1, i + Len(msg)) = msg

\* C11: send_command never returns a raw Err; when a connected adapter gets
\* ReadTag or WriteTag and its simulator fails, the call returns Ok with a
\* response whose success is false and whose error text contains the
\* simulator's message.
C11_SimulatorErrorsTranslated ==
    Sent =>
        /\ last.ret.ok
        /\ (/\ last.arg.type \in {"ReadTag", "WriteTag"}
            /\ connected[last.reader]
            /\ ~last.ret.val.success)
           => (/\ last.ret.val.error # None
               /\ Contains(last.ret.val.error[1],
                           SimulatorMessage(sim[last.reader], last.arg)))

\* A connected adapter holding the addressed tag answered a WriteTag with the
\* simulated fault, and one answered a ReadTag for an absent tag.
C11_Witness ==
    /\ Sent
    /\ connected[last.reader]
    /\ last.arg.type = "WriteTag"
    /\ Registered(last.reader, last.arg.epc)
    /\ ~last.ret.val.success
    /\ last.ret.val.error =
          Some(<<"RFID reader error: ", "Tag write error (simulated)">>)

\* The memory-bank byte the FX-class adapter puts in front of read data.
BankTag == [Reserved |-> 0, Epc |-> 1, Tid |-> 2, User |-> 3]

\* C12: a successful ReadTag{epc, bank} of a registered tag with payload P on
\* a connected adapter returns P on the Speedway-class adapter and the bank
\* byte (0, 1, 2, 3 for Reserved, Epc, Tid, User) followed by P on the
\* FX-class adapter; P is the payload of the latest successful WriteTag.
C12_ReadFraming ==
    (/\ Sent
     /\ last.arg.type = "ReadTag"
     /\ last.ret.val.success
     /\ Registered(last.reader, last.arg.epc))
    => LET P == sim[last.reader][last.arg.epc].data
       IN  /\ written[last.reader][last.arg.epc] = Some(P)
           /\ last.reader = Impinj => last.ret.val.data = Some(P)
           /\ last.reader = Zebra =>
                 /\ last.ret.val.data = Some(<<BankTag[last.arg.bank]>> \o P)
                 /\ Len(last.ret.val.data[1]) = Len(P) + 1

\* The FX-class adapter read the Tid bank of a tag after a WriteTag stored
\* 7, 8, 9 in it.
C12_Witness ==
    /\ Sent
    /\ last.reader = Zebra
    /\ last.arg.type = "ReadTag"
    /\ last.arg.bank = "Tid"
    /\ last.ret.val.success
    /\ last.ret.val.data = Some(<<2, 7, 8, 9>>)


\* ------------------------------------------------------------------------
\* Properties of the driver
\* ------------------------------------------------------------------------
\* The operation `op` has returned and no other was entered since.
Returned(op) == drv.pc = "idle" /\ drv.op = op

\* The events the operation in `drv` has logged so far.
Since == SubSeq(events[drv.driver], drv.mark + 1, Len(events[drv.driver]))

EpcsOf(tags) == {tags[i].epc : i \in 1..Len(tags)}

\* C13: perform_inventory_scan returns the identifiers observed by both
\* adapters' scans, each exactly once; a tag observed only by the Zebra
\* adapter's scan is in the returned list.
C13_InventoryReturnsBothScans ==
    Returned("perform_inventory_scan") =>
        /\ drv.ret.ok
        /\ EpcsOf(drv.impinj_tags) \cup EpcsOf(drv.zebra_tags)
              = {drv.ret.val[i] : i \in 1..Len(drv.ret.val)}
        /\ \A i, j \in 1..Len(drv.ret.val) : drv.ret.val[i] = drv.ret.val[j] => i = j

\* What the driver does: the returned list is the Impinj scan's identifiers,
\* in that scan's order.
C13_InventoryReturnsImpinjScan ==
    Returned("perform_inventory_scan") =>
        drv.ret = Ok([i \in 1..Len(drv.impinj_tags) |-> drv.impinj_tags[i].epc])

\* An inventory returned while the Zebra scan had observed a tag the Impinj
\* scan had not.
C13_Witness ==
    /\ Returned("perform_inventory_scan")
    /\ EpcsOf(drv.zebra_tags) \ EpcsOf(drv.impinj_tags) # {}

\* The operations that return a Result to the caller.
FallibleOps ==
    {"read_tag_impinj", "read_tag_zebra", "write_tag_impinj", "get_reader_config",
     "initialize_all", "perform_inventory_scan"}

\* C14: an operation that returns an error has logged an Error event carrying
\* that error before returning, and an operation that logged an Error event
\* returns the error.
C14_ErrorsLoggedAndReturned ==
    (drv.pc = "idle" /\ drv.op \in FallibleOps) =>
        /\ ~drv.ret.ok =>
              \E i \in 1..Len(Since) :
                  Since[i].type = "Error" /\ Since[i].error = drv.ret.err.msg
        /\ (\E i \in 1..Len(Since) : Since[i].type = "Error") => ~drv.ret.ok

\* What the driver does: the reads and the write log the error they return;
\* get_reader_config returns its error without logging anything.
C14_ReadWriteErrorsLogged ==
    /\ (drv.pc = "idle" /\ drv.op \in {"read_tag_impinj", "read_tag_zebra", "write_tag_impinj"})
          => (~drv.ret.ok <=> \E i \in 1..Len(Since) :
                                  Since[i].type = "Error" /\ Since[i].error = drv.ret.err.msg)
    /\ Returned("get_reader_config") => Since = <<>>

\* get_reader_config returned an error.
C14_Witness == Returned("get_reader_config") /\ ~drv.ret.ok

\* C15: a read_tag_impinj / read_tag_zebra call logs, in this order, one
\* NetworkDelay with the vendor's delay (8 ms Impinj, 6 ms Zebra) before the
\* command is sent and so before any simulator or adapter state changes, one
\* ProtocolMessage, and then TagRead if the response succeeded and Error if it
\* failed: exactly one of the two.
C15_ReadEventOrder ==
    [][/\ (drv.pc = "idle" /\ drv'.pc = "read_send") =>
            LET d == drv'.driver
            IN  /\ events'[d] = Append(events[d],
                                       IF drv'.op = "read_tag_impinj"
                                       THEN NetworkDelay("Impinj Speedway", 8)
                                       ELSE NetworkDelay("Zebra FX9600", 6))
                /\ sim' = sim
                /\ connected' = connected
                /\ last' = last
       /\ (drv.pc = "read_send" /\ drv'.pc = "idle") =>
            LET d == drv.driver
                name == IF drv.op = "read_tag_impinj" THEN "Impinj Speedway" ELSE "Zebra FX9600"
                response == last'.ret.val
                added == SubSeq(events'[d], Len(events[d]) + 1, Len(events'[d]))
            IN  /\ last'.op = "send_command" /\ last'.arg = ReadTag(drv.arg, "User")
                /\ Len(events[d]) = drv.mark + 1
                /\ events[d][drv.mark + 1].type = "NetworkDelay"
                /\ SubSeq(events'[d], 1, Len(events[d])) = events[d]
                /\ Len(added) = 2
                /\ added[1] = ProtocolMessage(name, "ReadTag")
                /\ response.success =>
                      /\ added[2] = TagRead(drv.arg, Len(response.data[1]))
                      /\ drv'.ret = Ok(response.data[1])
                /\ ~response.success =>
                      /\ added[2] = ErrorEvent(name, response.error[1])
                      /\ drv'.ret = Err(BoxError(response.error[1]))
      ]_vars

\* A Zebra read of a registered tag succeeded: NetworkDelay of 6 ms, the
\* ProtocolMessage and one TagRead of four bytes are in the log.
C15_Witness ==
    /\ Returned("read_tag_zebra")
    /\ drv.ret.ok
    /\ Since = <<NetworkDelay("Zebra FX9600", 6), ProtocolMessage("Zebra FX9600", "ReadTag"),
                 TagRead(drv.arg, 4)>>

\* C16: write_tag_impinj, like the reads, logs a NetworkDelay event and a
\* ProtocolMessage event for its round trip besides TagWritten or Error.
C16_WriteLogsDelayAndRoundTrip ==
    Returned("write_tag_impinj") =>
        /\ \E i \in 1..Len(Since) : Since[i].type = "NetworkDelay"
        /\ \E i \in 1..Len(Since) : Since[i].type = "ProtocolMessage"
        /\ \E i \in 1..Len(Since) : Since[i].type \in {"TagWritten", "Error"}

\* What the driver does: a write logs exactly one event, TagWritten or Error.
C16_WriteLogsOneEvent ==
    Returned("write_tag_impinj") =>
        /\ Len(Since) = 1
        /\ Since[1].type = IF drv.ret.ok THEN "TagWritten" ELSE "Error"

\* A write to a registered tag of a connected adapter succeeded.
C16_Witness == Returned("write_tag_impinj") /\ drv.ret.ok

\* C17: the events of one perform_inventory_scan are InventoryStarted(Impinj),
\* InventoryCompleted(Impinj), InventoryStarted(Zebra), InventoryCompleted(Zebra),
\* then TagDetected events only; the Zebra scan is entered only after the
\* Impinj scan has returned and its InventoryCompleted is logged; each
\* tags_found is the size of that adapter's scan result.
C17_InventorySequenced ==
    /\ drv.pc = "scan_impinj" =>
          /\ scan.reader = ImpinjOf(drv.driver)
          /\ Since = <<InventoryStarted("Impinj Speedway")>>
    /\ drv.pc = "scan_zebra" =>
          /\ scan.reader = ZebraOf(drv.driver)
          /\ Since = <<InventoryStarted("Impinj Speedway"),
                       InventoryCompleted("Impinj Speedway", Len(drv.impinj_tags)),
                       InventoryStarted("Zebra FX9600")>>
    /\ Returned("perform_inventory_scan") =>
          /\ Len(Since) >= 4
          /\ SubSeq(Since, 1, 4) =
                <<InventoryStarted("Impinj Speedway"),
                  InventoryCompleted("Impinj Speedway", Len(drv.impinj_tags)),
                  InventoryStarted("Zebra FX9600"),
                  InventoryCompleted("Zebra FX9600", Len(drv.zebra_tags))>>
          /\ \A i \in 5..Len(Since) : Since[i].type = "TagDetected"

\* An inventory returned whose scans found different numbers of tags and which
\* logged a TagDetected event.
C17_Witness ==
    /\ Returned("perform_inventory_scan")
    /\ Len(drv.impinj_tags) # Len(drv.zebra_tags)
    /\ Len(Since) > 4

\* C18: the log of a driver is appended to by that driver's operations only
\* and emptied by its get_events only, called by the user or by print_events;
\* get_events returns the pending events in emission order, so each event is
\* returned once; a get_events directly after a get_events of the same driver
\* returns the empty list; no step of one driver changes the log of another.
C18_EventLogFifo ==
    [][\A d \in Drivers :
          IF drv'.driver # d
          THEN events'[d] = events[d]
          ELSE IF drv'.op = "get_events"
          THEN /\ drv'.ret = Ok(events[d])
               /\ events'[d] = <<>>
               /\ (drv.op \in {"get_events", "print_events"} /\ drv.driver = d)
                     => drv'.ret = Ok(<<>>)
          ELSE IF drv'.op = "print_events"
          THEN /\ drv'.arg = events[d]
               /\ events'[d] = <<>>
               /\ (drv.op \in {"get_events", "print_events"} /\ drv.driver = d)
                     => drv'.arg = <<>>
          ELSE /\ Len(events'[d]) >= Len(events[d])
               /\ SubSeq(events'[d], 1, Len(events[d])) = events[d]
      ]_vars

\* get_events of one driver returned the events of two operations while the
\* other driver's log held events of its own.
C18_Witness ==
    /\ Returned("get_events")
    /\ Len(drv.ret.val) >= 5
    /\ events[drv.driver] = <<>>
    /\ \E d \in Drivers : d # drv.driver /\ Len(events[d]) >= 2

\* The steps of an operation addressed to the Impinj (Zebra) adapter.
ReadStep(op) ==
    \/ drv.pc = "idle" /\ drv'.pc = "read_send" /\ drv'.op = op
    \/ drv.pc = "read_send" /\ drv.op = op
WriteStep ==
    /\ drv.pc = "idle"
    /\ drv'.pc = "idle"
    /\ drv'.op = "write_tag_impinj"
    /\ last'.op = "send_command"
    /\ last'.arg.type = "WriteTag"
ImpinjStep == WriteStep \/ ReadStep("read_tag_impinj")
ZebraStep == ReadStep("read_tag_zebra")

\* Frame of the addressed operations: the other vendor's simulator is the same
\* after the step as before.
OtherSimulatorUnchanged ==
    /\ ImpinjStep => sim'[ZebraOf(drv'.driver)] = sim[ZebraOf(drv'.driver)]
    /\ ZebraStep => sim'[ImpinjOf(drv'.driver)] = sim[ImpinjOf(drv'.driver)]

\* A read_tag_zebra of a seeded tag returns successfully in this step.
ZebraReadReturns ==
    /\ drv.pc = "read_send"
    /\ drv.op = "read_tag_zebra"
    /\ drv'.ret.ok
    /\ drv.arg \in DemoEpcs

\* C19 as stated: write_tag_impinj and read_tag_impinj leave the Zebra
\* adapter's tags unchanged and read_tag_zebra leaves the Impinj adapter's, and
\* read_tag_zebra(id) returns the seeded payload.
C19_ZebraReadReturnsSeed ==
    [][/\ OtherSimulatorUnchanged
       /\ ZebraReadReturns => drv'.ret.val = DemoTagData
      ]_vars

\* C19: write_tag_impinj and read_tag_impinj leave the Zebra adapter's tags
\* unchanged and read_tag_zebra leaves the Impinj adapter's; read_tag_zebra(id)
\* returns the bank byte of the User bank, 3, followed by the seeded payload,
\* whatever was written to id through the Impinj adapter.
C19_AdaptersIsolated ==
    [][/\ OtherSimulatorUnchanged
       /\ ZebraReadReturns => drv'.ret.val = <<3>> \o DemoTagData
      ]_vars

\* read_tag_zebra returned the seeded payload behind the bank byte after
\* write_tag_impinj had stored other bytes under the same identifier.
C19_Witness ==
    /\ Returned("read_tag_zebra")
    /\ drv.ret = Ok(<<3>> \o DemoTagData)
    /\ Registered(Impinj, drv.arg)
    /\ sim[Impinj][drv.arg].data = <<7, 8, 9>>
    /\ sim[Zebra][drv.arg].data = DemoTagData


\* ------------------------------------------------------------------------
\* Properties of the validator
\* ------------------------------------------------------------------------
Validated == validation.now # <<>>

\* C20: validate always returns a ValidationResult, never an error; is_valid
\* is true exactly when the violation list is empty, whatever the warnings.
C20_ValidIffNoViolations ==
    Validated =>
        /\ validation.ret.ok
        /\ validation.ret.val.is_valid <=> (validation.ret.val.violations = <<>>)

\* A sample was found valid with both warnings reported.
C20_Witness ==
    /\ Validated
    /\ validation.ret.val.is_valid
    /\ validation.ret.val.warnings = <<"ApproachingExpiry", "HighReadCount">>

\* What each rule of validate tests, stated on the sample and on the clock
\* readings of the call, in the order of evaluation.
RuleConditions ==
    << <<sample.integrity_checksum
            # hash(<<Str(sample.sample_id \o sample.metadata.batch_number)>>
                        \o to_be_bytes(sample.last_updated, 8)),
         "ChecksumMismatch">>,
       <<sample.metadata.expiry_date # None
            /\ validation.now[1] > sample.metadata.expiry_date[1],
         "Expired">>,
       <<sample.status = "Compromised", "StatusInvalid">>,
       <<sample.read_count > 1000, "ReadCountAnomaly">>,
       <<sample.last_updated > validation.now[3], "TimestampAnomaly">>,
       <<sample.metadata.temperature_range # None
            /\ sample.metadata.temperature_range[1][1]
                    >= sample.metadata.temperature_range[1][2],
         "TemperatureOutOfRange">> >>

RECURSIVE Holding(_)
Holding(rules) ==
    IF rules = <<>> THEN <<>>
    ELSE (IF rules[1][1] THEN <<rules[1][2]>> ELSE <<>>) \o Holding(Tail(rules))

\* C21: the six rules are evaluated independently: the violation list holds
\* the violation of exactly the rules whose own condition holds, in the order
\* checksum, expiry, status, read count, timestamp, temperature.
C21_RulesIndependent ==
    Validated => validation.ret.val.violations = Holding(RuleConditions)

\* All six conditions held at once and all six violations were reported.
C21_Witness ==
    /\ Validated
    /\ \A i \in 1..6 : RuleConditions[i][1]
    /\ Len(validation.ret.val.violations) = 6

\* ------------------------------------------------------------------------
\* The expiry rule. The time left until the expiry, in ticks, for a call that
\* read the clock once; a day has TicksPerDay ticks.
OneReading == Validated /\ validation.now[1] = validation.now[2]
Reported(v) == \E i \in DOMAIN validation.ret.val.violations : validation.ret.val.violations[i] = v
Warned(w) == \E i \in DOMAIN validation.ret.val.warnings : validation.ret.val.warnings[i] = w
TicksLeft == sample.metadata.expiry_date[1] - validation.now[1]

\* C22: with an expiry date, a sample past it gets Expired and no
\* ApproachingExpiry; one whose expiry is in the future and at most 30 days
\* ahead, less than one day included, gets ApproachingExpiry and no Expired;
\* one further ahead, or without expiry date, gets neither.
C22_ExpiryRule ==
    OneReading =>
        IF sample.metadata.expiry_date = None
        THEN ~Reported("Expired") /\ ~Warned("ApproachingExpiry")
        ELSE /\ TicksLeft < 0 => Reported("Expired") /\ ~Warned("ApproachingExpiry")
             /\ (TicksLeft > 0 /\ TicksLeft <= ApproachingExpiryDays * TicksPerDay)
                    => Warned("ApproachingExpiry") /\ ~Reported("Expired")
             /\ TicksLeft > ApproachingExpiryDays * TicksPerDay
                    => ~Reported("Expired") /\ ~Warned("ApproachingExpiry")

\* ------------------------------------------------------------------------
\* C23: a read count above 1000 gets ReadCountAnomaly and no HighReadCount,
\* one above 500 and at most 1000 gets HighReadCount and no ReadCountAnomaly,
\* one of at most 500 gets neither; the two are never reported together.
C23_ReadCountRule ==
    Validated =>
        /\ sample.read_count > 1000
                => Reported("ReadCountAnomaly") /\ ~Warned("HighReadCount")
        /\ (sample.read_count > 500 /\ sample.read_count <= 1000)
                => Warned("HighReadCount") /\ ~Reported("ReadCountAnomaly")
        /\ sample.read_count <= 500
                => ~Reported("ReadCountAnomaly") /\ ~Warned("HighReadCount")
        /\ ~(Reported("ReadCountAnomaly") /\ Warned("HighReadCount"))

\* A sample read exactly 1000 times was warned about and not rejected for it.
C23_Witness ==
    /\ Validated
    /\ sample.read_count = 1000
    /\ Warned("HighReadCount") /\ ~Reported("ReadCountAnomaly")

\* ------------------------------------------------------------------------
\* Properties of the encryption and of the tag format
\* ------------------------------------------------------------------------
\* C24: a tag whose payload was changed after encoding, the digest left as
\* encoded, is refused with TagMemoryError; whenever the stored digest is not
\* the hash of the payload, decrypt_payload returns TagMemoryError: no
\* plaintext, no EncryptionError.
C24_TamperDetected ==
    codec.op = "decrypt_payload" =>
        LET t == codec.tag[1].memory_layout
            e == codec.encoded[1].memory_layout
        IN  /\ (t.payload # e.payload /\ t.integrity_hash = e.integrity_hash)
                    => codec.ret = Err(TagMemoryError(
                            <<"Integrity hash mismatch - tag may be corrupted">>))
            /\ hash(t.payload) # t.integrity_hash
                    => ~codec.ret.ok /\ codec.ret.err.kind = "TagMemoryError"

\* A payload cut down to its IV, which decrypt would refuse as too short, was
\* refused for its digest.
C24_Witness ==
    /\ codec.op = "decrypt_payload"
    /\ Len(codec.tag[1].memory_layout.payload) < MinCiphertext
    /\ codec.tag[1].memory_layout.integrity_hash
            = codec.encoded[1].memory_layout.integrity_hash
    /\ ~codec.ret.ok /\ codec.ret.err.kind = "TagMemoryError"

\* C25: decrypt(K, encrypt(K, P)) succeeds and returns P, for the empty P and
\* for a P of whole blocks too; what encrypt returns is at least 32 bytes
\* long.
C25_EncryptRoundTrip ==
    /\ codec.op = "encrypt" =>
            codec.ret.ok /\ Len(codec.ret.val) >= 32
    /\ (codec.op = "decrypt" /\ codec.intact /\ codec.with = codec.key)
            => codec.ret = Ok(codec.plaintext)

\* A plaintext of exactly one block came back from its 48 bytes of ciphertext.
C25_Witness ==
    /\ codec.op = "decrypt" /\ codec.intact /\ codec.with = codec.key
    /\ Len(codec.plaintext) = BlockSize
    /\ Len(codec.bytes[1]) = IvLen + 2 * BlockSize
    /\ codec.ret.ok /\ codec.ret.val = codec.plaintext

\* C26: from_bytes(to_bytes(t)) returns a tag equal to t in every field;
\* from_bytes of a strict prefix of to_bytes(t) fails with TagParseError.
C26_WireRoundTrip ==
    codec.op = "from_bytes" =>
        IF codec.cut
        THEN ~codec.ret.ok /\ codec.ret.err.kind = "TagParseError"
        ELSE codec.ret = Ok(codec.tag[1])

\* Both cases happened: a whole buffer was parsed back, and (in another state)
\* a buffer missing its last byte was refused.
C26_Witness ==
    /\ codec.op = "from_bytes"
    /\ ~codec.cut
    /\ codec.ret.ok
    /\ codec.ret.val.memory_layout.payload = codec.tag[1].memory_layout.payload
    /\ Len(codec.bytes[1]) > PrefixLen + HeaderLen + MetadataLen + MinCiphertext

\* ------------------------------------------------------------------------
\* Properties of SampleGuard
\* ------------------------------------------------------------------------
\* The stage at which reading what the reader holds stops, from the stored
\* bytes and the clock readings of the call.
Stopped(kind) == [kind |-> kind, validation |-> <<>>, sample |-> <<>>]
StageValidated(s, v) ==
    IF v.val.violations # <<>>
    THEN [kind |-> "IntegrityViolation", validation |-> <<v.val>>, sample |-> <<>>]
    ELSE [kind |-> "Ok", validation |-> <<>>, sample |-> <<s>>]
StageDeserialized(s) ==
    IF ~s.ok THEN Stopped("InvalidSampleData")
    ELSE StageValidated(s.val, validate(s.val, guard.now[1], guard.now[2], guard.now[3]))
StageDecrypted(plain) ==
    IF ~plain.ok THEN Stopped("EncryptionError")
    ELSE StageDeserialized(sample_from_json(plain.val))
StageParsed(tag) ==
    IF ~tag.ok THEN Stopped("TagParseError")
    ELSE IF hash(tag.val.memory_layout.payload) # tag.val.memory_layout.integrity_hash
    THEN Stopped("TagMemoryError")
    ELSE StageDecrypted(decrypt(RFIDEncryption_new(DefaultMasterKey),
                                tag.val.memory_layout.payload, guard.arg[1]))
ReadStage ==
    IF stored = None THEN Stopped("ReaderError") ELSE StageParsed(from_bytes(stored[1]))

Agrees(ret, stage) ==
    /\ ret.ok <=> stage.kind = "Ok"
    /\ ret.ok => ret.val = stage.sample[1]
    /\ ~ret.ok => ret.err.kind = stage.kind
    /\ stage.kind = "IntegrityViolation" => ret.err.validation = stage.validation[1]

\* C27: read_sample returns IntegrityViolation, with the whole
\* ValidationResult, exactly when reading, parsing, digest check, decryption
\* and deserialization succeeded and validation found a violation; a failure
\* of an earlier stage is returned as that stage's kind of error; a sample is
\* returned only when validation found no violation.
C27_ViolationsDistinguished ==
    guard.op = "read_sample" => Agrees(guard.ret, ReadStage)

\* A sample written with a compromised status and a broken checksum was read
\* back and refused with both violations.
C27_Witness ==
    /\ guard.op = "read_sample"
    /\ ~guard.ret.ok
    /\ guard.ret.err.kind = "IntegrityViolation"
    /\ Len(guard.ret.err.validation.violations) >= 2

WellFormed(s, now) ==
    /\ verify_integrity(s)
    /\ s.status # "Compromised"
    /\ s.read_count <= max_read_count
    /\ s.last_updated <= now
    /\ s.metadata.temperature_range # None
            => s.metadata.temperature_range[1][1] < s.metadata.temperature_range[1][2]

Unexpired(s, now) ==
    s.metadata.expiry_date # None => ~(now > s.metadata.expiry_date[1])

\* C28: while the reader holds what was written, read_sample returns the
\* sample of the latest write_sample, if that sample is well-formed and
\* unexpired; check_integrity of the returned sample is valid while it is
\* unexpired.
C28_ReadReturnsLatestWrite ==
    /\ (/\ guard.op = "read_sample"
        /\ wrote.sample # None
        /\ WellFormed(wrote.sample[1], guard.now[3])
        /\ Unexpired(wrote.sample[1], guard.now[1]))
            => guard.ret = Ok(wrote.sample[1])
    /\ (guard.op = "check_integrity" /\ Unexpired(guard.arg[1], guard.now[1]))
            => guard.ret.ok /\ guard.ret.val.is_valid

\* After two writes with a status change in between, the read returned the
\* sample in transit.
C28_Witness ==
    /\ guard.op = "read_sample"
    /\ wrote.count = 2
    /\ guard.ret.ok
    /\ guard.ret.val.status = "InTransit"
    /\ guard.ret.val = sample

\* ------------------------------------------------------------------------
\* C29: after Sample::new and any sequence of update_status, update_location
\* and increment_read_count, at any later times, verify_integrity() is true.
C29_ChecksumSurvivesMutators == verify_integrity(sample)

\* ------------------------------------------------------------------------
\* The adapters whose simulator the call made last replaced: the one given a
\* simulator by with_simulator, both adapters of the driver by setup_demo_tags
\* (which assigns through get_simulator_mut).
Replaced ==
    IF last.op = "with_simulator" THEN {last.reader}
    ELSE IF last.op = "get_simulator_mut"
    THEN UNION {{ImpinjOf(d), ZebraOf(d)} : d \in {d \in Drivers : last.reader = ZebraOf(d)}}
    ELSE {}

====
